---- MODULE Spec2Model ----
(***************************************************************************)
(* A model of the ktbind marshalling and binding engine                    *)
(* (src/cpp/include/ktbind/ktbind.hpp): the call adapters and their        *)
(* exception translation, the opaque-handle lifecycle of native-resident   *)
(* objects, the load routine that installs the bindings, and the           *)
(* per-thread execution context.                                           *)
(*                                                                         *)
(* The specifications share the variables:                                 *)
(*   Spec      adapter calls arriving from the runtime on one thread       *)
(*   SpecOwn   holders of Sample and the instances they own                *)
(*   SpecClose close() calls of several threads, step by step              *)
(*   SpecLoad  java_initialization_impl against a host class universe      *)
(*   SpecSig   the signatures computed for registered functions            *)
(*   SpecEnv   Environment: load, unload, callbacks on native threads      *)
(*   SpecCall  invocations of a wrapped callable of either return type     *)
(*   SpecRef   the global reference of a wrapped callable                  *)
(*   SpecConc  invocations of a callable in progress on several threads    *)
(*   SpecData  conversions of data class values                            *)
(*   SpecValue conversions of strings and collections                      *)
(***************************************************************************)
EXTENDS Integers, Sequences, FiniteSets, TLC

(***************************************************************************)
(* Bounds of the model.                                                    *)
(***************************************************************************)
\* native instances ever allocated with new T(...)
MaxInstances == 2
\* holder objects ever allocated with AllocObject
MaxHolders == 2
\* close() calls counted per holder
MaxCloses == 2

VARIABLES
    \* ---- Spec: adapters and object lifecycle
    nativePointer,         \* holder -> value of its field nativePointer (0 = null)
    holders,               \* holder -> [instance, by, closes]: how it was made (history)
    deleted,               \* native instance -> number of times delete ran on it
    data,                  \* native instance -> the value of its member _data
    nativePointerDeclared, \* whether the holder class declares the field nativePointer: J
    pending,               \* the runtime exception pending when the last adapter returned
    last,                  \* what the last adapter call did
    crashed,               \* the process ended in undefined behaviour or a failed assert
    \* ---- SpecLoad: the binding registry and the host's classes
    FunctionBindings,      \* FunctionBindings::value: class name -> bindings in call order
    FieldBindings,         \* FieldBindings::value: type signature -> bindings in call order
    initializer,           \* the user registration function: [script, throws, prints]
    host,                  \* the host: [classes, natives, fields, versionOk, namesMethod]
    installed,             \* the entry points the host holds from RegisterNatives
    loaded,                \* how java_initialization_impl ended
    \* ---- SpecEnv: the execution context
    vm,                    \* Environment::_vm: "nullptr" or "vm"
    threads,               \* thread -> its this_thread and what the host knows of it
    callback,              \* what the last invocation of a captured callable did
    refs,                  \* the GlobalObjectRef of each wrapped callable, in wrapping order
    \* ---- SpecConc: invocations in progress
    envOf,                 \* Environment instance -> the thread whose JNIEnv its _env caches
    inflight,              \* thread -> the frame of the closure invocation it is in
    done,                  \* thread -> the last invocation it completed
    \* ---- SpecData: conversions of data classes
    conv,                  \* what the last conversion of a data class value did
    \* ---- SpecClose: close() calls in progress
    closing                \* thread -> the step of DestroyObjectAdapter::invoke it is at

lifecycleVars == <<nativePointer, holders, deleted, data, nativePointerDeclared, pending, last>>
loadVars == <<FunctionBindings, FieldBindings, initializer, host, installed, loaded>>
envVars == <<vm, threads, callback, refs>>
concVars == <<envOf, inflight, done, conv, closing>>

(***************************************************************************)
(* Runtime exception objects.  A throwable is identified by where it was   *)
(* created (origin), its class and its message; getMessage() may return    *)
(* null (NullMsg).                                                         *)
(***************************************************************************)
NullMsg == "<null>"
GarbageMsg == "<unspecified>"

NoThrowable == [origin |-> "none", cls |-> "", msg |-> ""]

\* env->ThrowNew(cls, msg): a newly created exception object
ThrowNew(cls, msg) == [origin |-> "ThrowNew", cls |-> cls, msg |-> msg]

\* exceptions a runtime callable (a Kotlin lambda) may raise
CallbackThrowables ==
    { [origin |-> "callback", cls |-> c, msg |-> m] :
        c \in {"java/lang/Exception"},
        m \in {"non-critical error", NullMsg} }

\* raised by the host when AllocObject cannot allocate
OutOfMemoryError == [origin |-> "host", cls |-> "java/lang/OutOfMemoryError", msg |-> "Java heap space"]
\* raised by the host when GetFieldID does not find the field
NoSuchFieldError == [origin |-> "host", cls |-> "java/lang/NoSuchFieldError", msg |-> "nativePointer"]
\* raised by System.out.print when the stream fails
PrintError == [origin |-> "host", cls |-> "java/lang/IllegalStateException", msg |-> "stream closed"]

\* what a captured runtime callable does when invoked: returns, or raises
Callbacks == {NoThrowable} \cup CallbackThrowables

\* the outcomes of undefined behaviour: the process dies, or execution goes on
UBOutcomes == {"crash", "continue"}

ExpectedError == "an expected error"
DisposedMsg == "Object com/kheiron/ktbind/Sample has already been disposed of."

(***************************************************************************)
(* JavaException(env): captures the pending runtime exception.             *)
(* p is the pending exception; the result is the wrapper's ex and message, *)
(* the pending exception afterwards, and whether the process died.         *)
(* GetStringUTFChars on the null message of a throwable is undefined.      *)
(***************************************************************************)
\* a JavaException that leaves the runtime exception pending (no ExceptionClear)
JavaException_KeepsPending(p, ub) ==
    [ex |-> p, message |-> IF p.msg = NullMsg THEN "" ELSE p.msg, pending |-> p, crash |-> FALSE]

JavaException(p, ub) ==
    IF p = NoThrowable
    THEN [ex |-> NoThrowable, message |-> "", pending |-> NoThrowable, crash |-> FALSE]
    ELSE IF p.msg = NullMsg
         THEN [ex |-> p,
               message |-> IF ub = "crash" THEN "" ELSE GarbageMsg,
               pending |-> NoThrowable,
               crash |-> (ub = "crash")]
         ELSE [ex |-> p, message |-> p.msg, pending |-> NoThrowable, crash |-> FALSE]

(***************************************************************************)
(* exception_handler(env, ex): raises java.lang.Exception with ex.what()   *)
(* unless a runtime exception is already pending.                          *)
(***************************************************************************)
\* an exception_handler that does not look for a pending runtime exception
exception_handler_Unchecked(p, what) ==
    [pending |-> ThrowNew("java/lang/Exception", what), raised |-> 1]

exception_handler(p, what) ==
    IF p = NoThrowable
    THEN [pending |-> ThrowNew("java/lang/Exception", what), raised |-> 1]
    ELSE [pending |-> p, raised |-> 0]

(***************************************************************************)
(* The catch clauses every adapter ends with.  f is the state in which the *)
(* try block ended: what was thrown (thrown, what, inner) and the pending  *)
(* runtime exception.                                                      *)
(***************************************************************************)
\* catch clauses without the one for std::exception: the exception leaves the adapter
AdapterCatch_NoStdCatch(f) ==
    CASE f.thrown = "JavaException" ->
            [pending |-> f.inner, raised |-> 1, ret |-> "default"]
      [] f.thrown = "std::exception" ->
            [pending |-> f.pending, raised |-> 0, ret |-> "propagated"]
      [] OTHER ->
            [pending |-> f.pending, raised |-> 0, ret |-> "value"]

AdapterCatch(f) ==
    CASE f.thrown = "JavaException" ->
            \* env->Throw(ex.innerException())
            [pending |-> f.inner, raised |-> 1, ret |-> "default"]
      [] f.thrown = "std::exception" ->
            LET h == exception_handler(f.pending, f.what)
            IN  [pending |-> h.pending, raised |-> h.raised, ret |-> "default"]
      [] OTHER ->
            [pending |-> f.pending, raised |-> 0, ret |-> "value"]

(***************************************************************************)
(* The closure made by ArgType<std::function<R(Args...)>>::native_value,   *)
(* invoked by native code: calls the runtime callable, then throws a       *)
(* JavaException if the call left an exception pending.                    *)
(***************************************************************************)
Closure(cb, ub) ==
    IF cb # NoThrowable
    THEN LET j == JavaException(cb, ub)
         IN  [thrown |-> IF j.crash THEN "crash" ELSE "JavaException",
              what |-> j.message, inner |-> j.ex, pending |-> j.pending,
              captured |-> j.ex, called |-> TRUE, caught |-> FALSE, unboxed |-> FALSE]
    ELSE [thrown |-> "none", what |-> "", inner |-> NoThrowable, pending |-> NoThrowable,
          captured |-> NoThrowable, called |-> TRUE, caught |-> FALSE, unboxed |-> TRUE]

\* the return types R of the wrapped std::function<R(Args...)>
ClosureTypes == {"void", "int"}

\* the steps the closure takes once it has an environment, in order: the
\* arguments are converted and boxed, the invoke method is called, the pending
\* exception is looked for, and then either JavaException(env) is constructed
\* and thrown or (R not void) the result is unboxed and converted
ClosureSteps(R, cb, ub) ==
    <<"java_value", "java_box",
      IF R = "void" THEN "CallVoidMethod" ELSE "CallObjectMethod",
      "ExceptionCheck">>
    \o (IF cb # NoThrowable
        THEN IF JavaException(cb, ub).crash
             THEN <<"JavaException">>
             ELSE <<"JavaException", "throw">>
        ELSE IF R = "void" THEN <<>> ELSE <<"java_unbox", "native_value">>)

(***************************************************************************)
(* The bound native functions (test/java.cpp), by what they do.            *)
(***************************************************************************)
Bodies == {"returns", "raise_native_exception", "pass_callback",
           "catch_java_exception", "output_then_throw"}

NoFrame == [thrown |-> "none", what |-> "", inner |-> NoThrowable, pending |-> NoThrowable,
            captured |-> NoThrowable, called |-> FALSE, caught |-> FALSE, unboxed |-> FALSE]

\* whether the bound function takes a std::function parameter
TakesCallback(b) == b \in {"pass_callback", "catch_java_exception"}

\* JavaOutputBuffer::sync: prints through System.out and does not look at
\* the exception the print may leave pending
JavaOutputSync(printRaises) == IF printRaises THEN PrintError ELSE NoThrowable

Body(b, cb, ub) ==
    CASE b = "returns" -> NoFrame
      [] b = "raise_native_exception" ->
            [NoFrame EXCEPT !.thrown = "std::exception", !.what = ExpectedError]
      [] b = "output_then_throw" ->
            [NoFrame EXCEPT !.thrown = "std::exception", !.what = ExpectedError,
                            !.pending = JavaOutputSync(TRUE)]
      [] b = "pass_callback" -> Closure(cb, ub)
      [] b = "catch_java_exception" ->
            LET c == Closure(cb, ub)
            IN  IF c.thrown = "JavaException"
                THEN [c EXCEPT !.thrown = "none", !.caught = TRUE]
                ELSE c
      [] OTHER -> NoFrame

(***************************************************************************)
(* NativeClassArgType<T>::native_value: reads the holder's nativePointer   *)
(* and returns *ptr, with no check of ptr.  arg = 0: the bound function    *)
(* has no native-resident parameter.                                       *)
(***************************************************************************)
NativeClassArg(ptrs, arg, ub) ==
    IF arg = 0
    THEN [handle |-> 0, nullDeref |-> FALSE, crash |-> FALSE]
    ELSE [handle |-> ptrs[arg],
          nullDeref |-> (ptrs[arg] = 0),
          crash |-> (ptrs[arg] = 0 /\ ub = "crash")]

\* the flags an adapter's try block adds to the frame of the function body
Flags(converted, invoked, nullDeref, allocated, stored) ==
    [argsConverted |-> converted, invoked |-> invoked, nullDeref |-> nullDeref,
     allocated |-> allocated, stored |-> stored]

CrashFrame == [NoFrame EXCEPT !.thrown = "crash"]

(***************************************************************************)
(* Adapter<func, Args...>::invoke, the try block: converts the arguments,  *)
(* then invokes the function.                                              *)
(***************************************************************************)
AdapterTry(ptrs, arg, b, cb, ubDeref, ubMsg) ==
    LET a == NativeClassArg(ptrs, arg, ubDeref)
    IN  IF a.crash
        THEN CrashFrame @@ Flags(FALSE, FALSE, TRUE, FALSE, FALSE)
        ELSE Body(b, cb, ubMsg) @@ Flags(TRUE, TRUE, a.nullDeref, FALSE, FALSE)

(***************************************************************************)
(* MemberAdapter<T, func, Args...>::invoke, the try block: reads the       *)
(* receiver's nativePointer and throws std::logic_error when it is null,   *)
(* before any argument is converted.                                       *)
(***************************************************************************)
\* a MemberAdapter that does not test the receiver's handle
MemberAdapterTry_NoNullCheck(ptrs, this, arg, b, cb, ubDeref, ubMsg) ==
    AdapterTry(ptrs, arg, b, cb, ubDeref, ubMsg)

MemberAdapterTry(ptrs, this, arg, b, cb, ubDeref, ubMsg) ==
    IF ptrs[this] = 0
    THEN [NoFrame EXCEPT !.thrown = "std::exception", !.what = DisposedMsg]
            @@ Flags(FALSE, FALSE, FALSE, FALSE, FALSE)
    ELSE AdapterTry(ptrs, arg, b, cb, ubDeref, ubMsg)

(***************************************************************************)
(* CreateObjectAdapter<T, Args...>::invoke, the try block: new T(args),    *)
(* AllocObject, getField("nativePointer"), SetLongField.                   *)
(***************************************************************************)
\* a CreateObjectAdapter that returns the holder without storing the pointer
CreateObjectTry_NoStore(ctor, allocOk, declared, ubMsg) ==
    IF ctor = "throws"
    THEN [NoFrame EXCEPT !.thrown = "std::exception", !.what = ExpectedError]
            @@ Flags(TRUE, TRUE, FALSE, FALSE, FALSE)
    ELSE NoFrame @@ Flags(TRUE, TRUE, FALSE, TRUE, FALSE)

CreateObjectTry(ctor, allocOk, declared, ubMsg) ==
    IF ctor = "throws"
    THEN [NoFrame EXCEPT !.thrown = "std::exception", !.what = ExpectedError]
            @@ Flags(TRUE, TRUE, FALSE, FALSE, FALSE)
    ELSE IF ~allocOk \/ ~declared
    THEN LET j == JavaException(IF ~allocOk THEN OutOfMemoryError ELSE NoSuchFieldError, ubMsg)
         IN  [NoFrame EXCEPT !.thrown = "JavaException", !.what = j.message,
                             !.inner = j.ex, !.captured = j.ex, !.pending = j.pending]
                @@ Flags(TRUE, TRUE, FALSE, TRUE, FALSE)
    ELSE NoFrame @@ Flags(TRUE, TRUE, FALSE, TRUE, TRUE)

(***************************************************************************)
(* DestroyObjectAdapter<T>::invoke: reads nativePointer, deletes the       *)
(* instance, writes null.  delete on an instance already deleted is        *)
(* undefined.                                                              *)
(***************************************************************************)
\* a DestroyObjectAdapter that leaves the handle in the holder
DestroyObject_KeepsHandle(ptrs, del, this, ub) ==
    LET ptr == ptrs[this]
    IN  [nativePointer |-> ptrs,
         deleted |-> IF ptr # 0 THEN [del EXCEPT ![ptr] = @ + 1] ELSE del,
         handle |-> ptr,
         crash |-> (ptr # 0 /\ del[ptr] >= 1 /\ ub = "crash")]

DestroyObject(ptrs, del, this, ub) ==
    LET ptr == ptrs[this]
    IN  [nativePointer |-> [ptrs EXCEPT ![this] = 0],
         deleted |-> IF ptr # 0 THEN [del EXCEPT ![ptr] = @ + 1] ELSE del,
         handle |-> ptr,
         crash |-> (ptr # 0 /\ del[ptr] >= 1 /\ ub = "crash")]

\* how an adapter returns from the state f its try block ended in
Return(f) ==
    IF f.thrown = "crash"
    THEN [pending |-> f.pending, raised |-> 0, ret |-> "none"]
    ELSE AdapterCatch(f)

\* struct Data: the value its default member initializers give, the value
\* of the runtime's Data(), and no value
DefaultData == "Data{}"
KotlinData == "Data()"
NoData == "none"
DataValues == {DefaultData, KotlinData}

\* the record of a call kept in last
Call(adapter, this, thisHandle, arg, argHandle, b, cb, f, r) ==
    f @@ [adapter |-> adapter, this |-> this, thisHandle |-> thisHandle,
          arg |-> arg, argHandle |-> argHandle, body |-> b, cb |-> cb,
          pendingAtCatch |-> f.pending, raised |-> r.raised, ret |-> r.ret,
          value |-> NoData]

NoCall == Call("none", 0, 0, 0, 0, "none", NoThrowable,
               NoFrame @@ Flags(FALSE, FALSE, FALSE, FALSE, FALSE),
               [pending |-> NoThrowable, raised |-> 0, ret |-> "none"])

HandleOf(ptrs, h) == IF h = 0 THEN 0 ELSE ptrs[h]

(***************************************************************************)
(* The runtime calls a bound free function.                                *)
(***************************************************************************)
InvokeAdapter(arg, b, cb, ubDeref, ubMsg) ==
    /\ ~crashed
    /\ TakesCallback(b) \/ cb = NoThrowable
    /\ LET f == AdapterTry(nativePointer, arg, b, cb, ubDeref, ubMsg)
           r == Return(f)
       IN  /\ last' = Call("Adapter", 0, 0, arg, HandleOf(nativePointer, arg), b, cb, f, r)
           /\ pending' = r.pending
           /\ crashed' = (f.thrown = "crash")
    /\ UNCHANGED <<nativePointer, holders, deleted, data, nativePointerDeclared>>
    /\ UNCHANGED <<loadVars, envVars, concVars>>

(***************************************************************************)
(* The runtime calls a bound instance method on holder this.               *)
(***************************************************************************)
InvokeMemberAdapter(this, arg, b, cb, ubDeref, ubMsg) ==
    /\ ~crashed
    /\ TakesCallback(b) \/ cb = NoThrowable
    /\ LET f == MemberAdapterTry(nativePointer, this, arg, b, cb, ubDeref, ubMsg)
           r == Return(f)
       IN  /\ last' = Call("MemberAdapter", this, nativePointer[this], arg,
                           HandleOf(nativePointer, arg), b, cb, f, r)
           /\ pending' = r.pending
           /\ crashed' = (f.thrown = "crash")
    /\ UNCHANGED <<nativePointer, holders, deleted, data, nativePointerDeclared>>
    /\ UNCHANGED <<loadVars, envVars, concVars>>

(***************************************************************************)
(* The runtime calls a bound constructor (a class method).                 *)
(***************************************************************************)
InvokeCreateObjectAdapter(ctor, allocOk, ubMsg) ==
    /\ ~crashed
    /\ Len(deleted) < MaxInstances
    /\ Len(nativePointer) < MaxHolders
    /\ LET f == CreateObjectTry(ctor, allocOk, nativePointerDeclared, ubMsg)
           r == Return(f)
           p == Len(deleted) + 1
           h == Len(nativePointer) + 1
       IN  /\ deleted' = IF f.allocated THEN Append(deleted, 0) ELSE deleted
           /\ data' = IF f.allocated THEN Append(data, DefaultData) ELSE data
           /\ nativePointer' = IF f.stored THEN Append(nativePointer, p) ELSE nativePointer
           /\ holders' = IF f.stored
                         THEN Append(holders, [instance |-> p, by |-> "constructor", closes |-> 0])
                         ELSE holders
           /\ last' = Call("CreateObjectAdapter", IF f.stored THEN h ELSE 0,
                           IF f.stored THEN p ELSE 0, 0, 0, ctor, NoThrowable, f, r)
           /\ pending' = r.pending
           /\ crashed' = (f.thrown = "crash")
    /\ UNCHANGED <<nativePointerDeclared, loadVars, envVars, concVars>>

(***************************************************************************)
(* The runtime calls close() on holder this.                               *)
(***************************************************************************)
InvokeDestroyObjectAdapter(this, ub) ==
    /\ ~crashed
    /\ holders[this].closes < MaxCloses
    /\ LET d == DestroyObject(nativePointer, deleted, this, ub)
           f == IF d.crash THEN CrashFrame ELSE NoFrame
           r == Return(f)
       IN  /\ nativePointer' = d.nativePointer
           /\ deleted' = d.deleted
           /\ holders' = [holders EXCEPT ![this].closes = @ + 1]
           /\ last' = Call("DestroyObjectAdapter", this, d.handle, 0, 0, "close", NoThrowable,
                           f @@ Flags(FALSE, d.handle # 0, FALSE, FALSE, FALSE), r)
           /\ pending' = r.pending
           /\ crashed' = d.crash
    /\ UNCHANGED <<data, nativePointerDeclared, loadVars, envVars, concVars>>

(***************************************************************************)
(* DestroyObjectAdapter<T>::invoke step by step, as threads of the runtime *)
(* run it side by side: the handle is read, the instance deleted, null     *)
(* written.  No lock is taken.  overlapped records that another close() of *)
(* the same holder was in progress at some time since the handle was read. *)
(***************************************************************************)
NotClosing == [phase |-> "idle", this |-> 0, ptr |-> 0, overlapped |-> FALSE]

\* T* ptr = ArgType<T*>::native_field_value(env, obj, field)
Close_native_field_value(ptrs, this) == ptrs[this]

\* delete ptr
Close_delete(del, ptr) == IF ptr # 0 THEN [del EXCEPT ![ptr] = @ + 1] ELSE del

\* a last step that leaves the handle in the holder
Close_java_field_value_Keeps(ptrs, this) == ptrs

\* ArgType<T*>::java_field_value(env, obj, field, nullptr)
Close_java_field_value(ptrs, this) == [ptrs EXCEPT ![this] = 0]

\* the close() calls on holder this that have read the handle and not yet
\* written null
ClosingOn(this) == { u \in DOMAIN closing : closing[u].phase # "idle" /\ closing[u].this = this }

CloseReadHandle(t, this) ==
    /\ ~crashed
    /\ closing[t].phase = "idle"
    /\ holders[this].closes + Cardinality(ClosingOn(this)) < MaxCloses
    /\ closing' = [u \in DOMAIN closing |->
                     IF u = t
                     THEN [phase |-> "read", this |-> this,
                           ptr |-> Close_native_field_value(nativePointer, this),
                           overlapped |-> ClosingOn(this) # {}]
                     ELSE IF u \in ClosingOn(this)
                     THEN [closing[u] EXCEPT !.overlapped = TRUE]
                     ELSE closing[u]]
    /\ UNCHANGED <<lifecycleVars, crashed, loadVars, envVars, envOf, inflight, done, conv>>

\* deleting an instance a second time is undefined
CloseDelete(t, ub) ==
    /\ ~crashed
    /\ closing[t].phase = "read"
    /\ LET ptr == closing[t].ptr
       IN  /\ deleted' = Close_delete(deleted, ptr)
           /\ crashed' = (ptr # 0 /\ deleted[ptr] >= 1 /\ ub = "crash")
    /\ closing' = [closing EXCEPT ![t].phase = "deleted"]
    /\ UNCHANGED <<nativePointer, holders, data, nativePointerDeclared, pending, last,
                   loadVars, envVars, envOf, inflight, done, conv>>

CloseWriteNull(t) ==
    /\ ~crashed
    /\ closing[t].phase = "deleted"
    /\ nativePointer' = Close_java_field_value(nativePointer, closing[t].this)
    /\ holders' = [holders EXCEPT ![closing[t].this].closes = @ + 1]
    /\ closing' = [closing EXCEPT ![t] = NotClosing]
    /\ UNCHANGED <<deleted, data, nativePointerDeclared, pending, last, crashed,
                   loadVars, envVars, envOf, inflight, done, conv>>

(***************************************************************************)
(* The member functions of Sample that read and write _data, on the        *)
(* members of the instances.                                               *)
(***************************************************************************)
\* Sample::duplicate: Sample(*this), a copy of the receiver
Sample_duplicate(dat, ptr) == dat[ptr]

\* Sample::get_data
Sample_get_data(dat, ptr) == dat[ptr]

\* a set_data that writes a member shared by every instance
Sample_set_data_Static(dat, ptr, d) == [i \in DOMAIN dat |-> d]

\* Sample::set_data(const Data&)
Sample_set_data(dat, ptr, d) == [dat EXCEPT ![ptr] = d]

(***************************************************************************)
(* NativeClassArgType<T>::java_value: new T(std::move(native_object)),     *)
(* AllocObject, getField("nativePointer"), SetLongField.  The instance     *)
(* made by new T stays allocated when AllocObject or getField fails.       *)
(***************************************************************************)
NativeClass_java_value(native_object, allocOk, declared, ubMsg) ==
    IF ~allocOk \/ ~declared
    THEN LET j == JavaException(IF ~allocOk THEN OutOfMemoryError ELSE NoSuchFieldError, ubMsg)
         IN  [NoFrame EXCEPT !.thrown = "JavaException", !.what = j.message,
                             !.inner = j.ex, !.captured = j.ex, !.pending = j.pending]
                @@ Flags(TRUE, TRUE, FALSE, TRUE, FALSE) @@ [moved |-> native_object]
    ELSE NoFrame @@ Flags(TRUE, TRUE, FALSE, TRUE, TRUE) @@ [moved |-> native_object]

(***************************************************************************)
(* The runtime calls duplicate() on holder this: MemberAdapter with a      *)
(* result of a native class, returned by value.                            *)
(***************************************************************************)
InvokeDuplicate(this, allocOk, ubMsg) ==
    /\ ~crashed
    /\ nativePointer[this] # 0 => /\ Len(deleted) < MaxInstances
                                  /\ Len(nativePointer) < MaxHolders
    /\ LET ptr == nativePointer[this]
           m == MemberAdapterTry(nativePointer, this, 0, "returns", NoThrowable,
                                 "continue", "continue")
           live == ptr # 0 /\ m.thrown = "none"
           f == IF live
                THEN NativeClass_java_value(Sample_duplicate(data, ptr), allocOk,
                                            nativePointerDeclared, ubMsg)
                ELSE m @@ [moved |-> NoData]
           r == Return(f)
           p == Len(deleted) + 1
           h == Len(nativePointer) + 1
       IN  /\ deleted' = IF f.allocated THEN Append(deleted, 0) ELSE deleted
           /\ data' = IF f.allocated THEN Append(data, f.moved) ELSE data
           /\ nativePointer' = IF f.stored THEN Append(nativePointer, p) ELSE nativePointer
           /\ holders' = IF f.stored
                         THEN Append(holders, [instance |-> p, by |-> "return", closes |-> 0])
                         ELSE holders
           /\ last' = [Call("MemberAdapter", this, ptr, 0, 0, "duplicate", NoThrowable, f, r)
                          EXCEPT !.value = IF f.stored THEN h ELSE 0]
           /\ pending' = r.pending
           /\ crashed' = (f.thrown = "crash")
    /\ UNCHANGED <<nativePointerDeclared, loadVars, envVars, concVars>>

(***************************************************************************)
(* The runtime calls set_data(d) on holder this.                           *)
(***************************************************************************)
InvokeSetData(this, d) ==
    /\ ~crashed
    /\ LET ptr == nativePointer[this]
           f == MemberAdapterTry(nativePointer, this, 0, "returns", NoThrowable,
                                 "continue", "continue")
           live == ptr # 0 /\ f.thrown = "none"
           r == Return(f)
       IN  /\ data' = IF live THEN Sample_set_data(data, ptr, d) ELSE data
           /\ last' = [Call("MemberAdapter", this, ptr, 0, 0, "set_data", NoThrowable, f, r)
                          EXCEPT !.value = d]
           /\ pending' = r.pending
           /\ crashed' = (f.thrown = "crash")
    /\ UNCHANGED <<nativePointer, holders, deleted, nativePointerDeclared>>
    /\ UNCHANGED <<loadVars, envVars, concVars>>

(***************************************************************************)
(* The runtime calls get_data() on holder this.                            *)
(***************************************************************************)
InvokeGetData(this) ==
    /\ ~crashed
    /\ LET ptr == nativePointer[this]
           f == MemberAdapterTry(nativePointer, this, 0, "returns", NoThrowable,
                                 "continue", "continue")
           live == ptr # 0 /\ f.thrown = "none"
           r == Return(f)
       IN  /\ last' = [Call("MemberAdapter", this, ptr, 0, 0, "get_data", NoThrowable, f, r)
                          EXCEPT !.value = IF live THEN Sample_get_data(data, ptr) ELSE NoData]
           /\ pending' = r.pending
           /\ crashed' = (f.thrown = "crash")
    /\ UNCHANGED <<nativePointer, holders, deleted, data, nativePointerDeclared>>
    /\ UNCHANGED <<loadVars, envVars, concVars>>

(***************************************************************************)
(* The binding registry and its registration interface.                    *)
(***************************************************************************)
JNI_OK == 0
JNI_ERR == -1
JNI_EDETACHED == -2
JNI_EVERSION == -3
JNI_VERSION_1_6 == 65542

SampleClass == "com/kheiron/ktbind/Sample"
LambdaSampleClass == "com/kheiron/ktbind/LambdaSample"
DataClass == "com/kheiron/ktbind/Data"

\* CompositeArgType<T, J>::type_sig
TypeSig(class_name) == "L" \o class_name \o ";"
StringSig == TypeSig("java/lang/String")
Function4Sig == "Lkotlin/jvm/functions/Function4;"

RECURSIVE join_v(_)
join_v(items) == IF items = <<>> THEN "" ELSE Head(items) \o join_v(Tail(items))

\* Function<R(Args...)>::signature
Signature(params, ret) == "(" \o join_v(params) \o ")" \o ret

\* std::map operator[] followed by push_back
MapAppend(tbl, k, x) ==
    IF k \in DOMAIN tbl THEN [tbl EXCEPT ![k] = Append(@, x)] ELSE tbl @@ (k :> <<x>>)

FunctionBinding(name, signature, is_member, entry) ==
    [name |-> name, signature |-> signature, is_member |-> is_member,
     function_entry_point |-> entry]

FieldBinding(name, signature) == [name |-> name, signature |-> signature]

\* native_class<T>::native_class()
native_class(fb, c) ==
    MapAppend(fb, c, FunctionBinding("close", Signature(<<>>, "V"), TRUE, "DestroyObjectAdapter"))

\* a constructor that keeps one binding per exposed name
constructor_ReplacesName(fb, c, name, params) ==
    LET b == FunctionBinding(name, Signature(params, TypeSig(c)), FALSE, "CreateObjectAdapter")
    IN  IF c \in DOMAIN fb
        THEN [fb EXCEPT ![c] = Append(SelectSeq(@, LAMBDA x : x.name # name), b)]
        ELSE fb @@ (c :> <<b>>)

\* native_class<T>::constructor<F>(name), F = T(Args...)
constructor(fb, c, name, params) ==
    MapAppend(fb, c, FunctionBinding(name, Signature(params, TypeSig(c)), FALSE,
                                     "CreateObjectAdapter"))

\* native_class<T>::function<func>(name)
function(fb, c, name, params, ret, is_member) ==
    MapAppend(fb, c, FunctionBinding(name, Signature(params, ret), is_member,
                                     IF is_member THEN "MemberAdapter" ELSE "Adapter"))

field_Overwrites(fld, c, name, signature) ==
    IF TypeSig(c) \in DOMAIN fld
    THEN [fld EXCEPT ![TypeSig(c)] = <<FieldBinding(name, signature)>>]
    ELSE fld @@ (TypeSig(c) :> <<FieldBinding(name, signature)>>)

\* data_class<T>::field<member>(name)
field(fld, c, name, signature) == MapAppend(fld, TypeSig(c), FieldBinding(name, signature))

\* one call of the registration interface, as the initializer makes it
RegistrationCall(op, c, name, params, ret, is_member) ==
    [op |-> op, cls |-> c, name |-> name, params |-> params, ret |-> ret,
     is_member |-> is_member]

Register(reg, call) ==
    CASE call.op = "native_class" -> [reg EXCEPT !.fn = native_class(@, call.cls)]
      [] call.op = "constructor" ->
            [reg EXCEPT !.fn = constructor(@, call.cls, call.name, call.params)]
      [] call.op = "function" ->
            [reg EXCEPT !.fn = function(@, call.cls, call.name, call.params, call.ret,
                                        call.is_member)]
      [] call.op = "field" -> [reg EXCEPT !.fld = field(@, call.cls, call.name, call.ret)]
      [] OTHER -> reg

\* the body of the initializer: its calls in order
RECURSIVE RunInitializer(_, _)
RunInitializer(reg, script) ==
    IF script = <<>> THEN reg ELSE RunInitializer(Register(reg, Head(script)), Tail(script))

\* the registrations of test/java.cpp and of the README, shortened
SampleChain ==
    << RegistrationCall("native_class", SampleClass, "", <<>>, "", FALSE),
       RegistrationCall("constructor", SampleClass, "create", <<>>, "", FALSE),
       RegistrationCall("constructor", SampleClass, "create", <<StringSig>>, "", FALSE),
       RegistrationCall("function", SampleClass, "duplicate", <<>>, TypeSig(SampleClass), TRUE) >>

LambdaSampleChain ==
    << RegistrationCall("native_class", LambdaSampleClass, "", <<>>, "", FALSE),
       RegistrationCall("function", LambdaSampleClass, "pass_callback_arguments",
                        <<StringSig, Function4Sig>>, StringSig, FALSE) >>

DataChain ==
    << RegistrationCall("field", DataClass, "b", <<>>, "Z", FALSE),
       RegistrationCall("field", DataClass, "str", <<>>, StringSig, FALSE) >>

Scripts ==
    { a \o b \o c : a \in {<<>>, SampleChain}, b \in {<<>>, LambdaSampleChain},
                    c \in {<<>>, DataChain} }

FullScript == SampleChain \o LambdaSampleChain \o DataChain

EmptyRegistry == [fn |-> <<>>, fld |-> <<>>]

\* std::map iterates its keys in lexicographic order
KeyOrder == << TypeSig(DataClass), LambdaSampleClass, SampleClass >>
Keys(tbl) == SelectSeq(KeyOrder, LAMBDA k : k \in DOMAIN tbl)

(***************************************************************************)
(* The host: the classes it can resolve, the native methods and the fields *)
(* they declare.                                                           *)
(***************************************************************************)
NativesOf(fb) ==
    UNION { { <<c, fb[c][i].name, fb[c][i].signature>> : i \in 1..Len(fb[c]) } : c \in DOMAIN fb }
FieldsOf(fld) ==
    UNION { { <<c, fld[c][i].name, fld[c][i].signature>> : i \in 1..Len(fld[c]) } : c \in DOMAIN fld }

AllClasses == { TypeSig(DataClass), LambdaSampleClass, SampleClass }
AllNatives == NativesOf(RunInitializer(EmptyRegistry, FullScript).fn)
AllFields == FieldsOf(RunInitializer(EmptyRegistry, FullScript).fld)

\* methods and fields a host class may lack
MissingNatives ==
    { <<SampleClass, "duplicate", Signature(<<>>, TypeSig(SampleClass))>>,
      <<LambdaSampleClass, "pass_callback_arguments",
        Signature(<<StringSig, Function4Sig>>, StringSig)>> }
MissingFields == { <<TypeSig(DataClass), "str", StringSig>> }

Hosts ==
    { [classes |-> cs, natives |-> AllNatives \ ns, fields |-> AllFields \ fs, versionOk |-> v,
       namesMethod |-> nm] :
        cs \in SUBSET AllClasses, ns \in SUBSET MissingNatives,
        fs \in SUBSET MissingFields, v \in BOOLEAN, nm \in BOOLEAN }

FullHost == [classes |-> AllClasses, natives |-> AllNatives, fields |-> AllFields,
             versionOk |-> TRUE, namesMethod |-> TRUE]

Initializers ==
    { [script |-> sc, throws |-> t, prints |-> pr] :
        sc \in Scripts, t \in {"none", "std::exception", "other"}, pr \in BOOLEAN }

\* the NoSuchMethodError of RegisterNatives for method b of class c: its
\* message is the host's, and a host may or may not put the method in it
NoSuchMethodError(h, c, b) ==
    [origin |-> "host", cls |-> "java/lang/NoSuchMethodError",
     msg |-> IF h.namesMethod
             THEN "Method '" \o c \o "." \o b.name \o b.signature
                      \o "' name or signature does not match"
             ELSE "native method"]

\* a GetEnv whose result is not looked at
HostGetEnv_AlwaysOk(h, hostAttached) == JNI_OK

\* JavaVM::GetEnv(JNI_VERSION_1_6) on a thread
HostGetEnv(h, hostAttached) ==
    IF ~h.versionOk THEN JNI_EVERSION
    ELSE IF hostAttached THEN JNI_OK ELSE JNI_EDETACHED

Min(S) == CHOOSE x \in S : \A y \in S : x <= y

\* JNIEnv::RegisterNatives(cls, functions): installs the entry points in
\* order and stops with NoSuchMethodError at the first method the class does
\* not declare
HostRegisterNatives(h, c, bs) ==
    LET bad == { i \in 1..Len(bs) : <<c, bs[i].name, bs[i].signature>> \notin h.natives }
        n == IF bad = {} THEN Len(bs) ELSE Min(bad) - 1
    IN  [rc |-> IF bad = {} THEN JNI_OK ELSE JNI_ERR,
         installed |-> { [cls |-> c, name |-> bs[i].name, signature |-> bs[i].signature,
                          entry |-> bs[i].function_entry_point] : i \in 1..n },
         pending |-> IF bad = {} THEN NoThrowable ELSE NoSuchMethodError(h, c, bs[Min(bad)])]

\* throw_exception(env, reason): clears what is pending, raises java.lang.Exception
throw_exception(p, reason) == ThrowNew("java/lang/Exception", reason)

(***************************************************************************)
(* java_initialization_impl, the loop over FunctionBindings::value.        *)
(* st = [installed, pending, trace]; the result adds whether the function  *)
(* returned in the loop, and with which code.                              *)
(***************************************************************************)
RECURSIVE RegisterFunctionBindings(_, _, _, _)
RegisterFunctionBindings(keys, fb, h, st) ==
    IF keys = <<>>
    THEN [returned |-> FALSE, rc |-> JNI_OK, installed |-> st.installed,
          pending |-> st.pending, trace |-> st.trace]
    ELSE LET c == Head(keys)
         IN  IF c \notin h.classes
             THEN [returned |-> TRUE, rc |-> JNI_ERR, installed |-> st.installed,
                   pending |-> throw_exception(st.pending,
                       "Cannot find class '" \o c \o "' registered as a native class in C++ code"),
                   trace |-> Append(st.trace, "FindClass " \o c)]
             ELSE LET r == HostRegisterNatives(h, c, fb[c])
                      st2 == [installed |-> st.installed \cup r.installed,
                              pending |-> IF r.pending # NoThrowable THEN r.pending
                                          ELSE st.pending,
                              trace |-> st.trace \o <<"FindClass " \o c,
                                                      "RegisterNatives " \o c>>]
                  IN  IF r.rc # JNI_OK
                      THEN [returned |-> TRUE, rc |-> r.rc, installed |-> st2.installed,
                            pending |-> st2.pending, trace |-> st2.trace]
                      ELSE RegisterFunctionBindings(Tail(keys), fb, h, st2)

(***************************************************************************)
(* java_initialization_impl, the loop over FieldBindings::value.           *)
(***************************************************************************)
RECURSIVE CheckFieldBindings(_, _, _, _)
CheckFieldBindings(keys, fld, h, st) ==
    IF keys = <<>>
    THEN [returned |-> FALSE, rc |-> JNI_OK, pending |-> st.pending, trace |-> st.trace]
    ELSE LET c == Head(keys)
             bs == fld[c]
             bad == { i \in 1..Len(bs) : <<c, bs[i].name, bs[i].signature>> \notin h.fields }
         IN  IF c \notin h.classes
             THEN [returned |-> TRUE, rc |-> JNI_ERR,
                   pending |-> throw_exception(st.pending,
                       "Cannot find class '" \o c \o "' registered as a data class in C++ code"),
                   trace |-> Append(st.trace, "FindClass " \o c)]
             ELSE IF bad # {}
             THEN [returned |-> TRUE, rc |-> JNI_ERR,
                   pending |-> throw_exception(st.pending,
                       "Cannot find field '" \o bs[Min(bad)].name \o "' with type signature '"
                           \o bs[Min(bad)].signature \o "' in registered class '" \o c \o "'"),
                   trace |-> st.trace \o <<"FindClass " \o c, "GetFieldID " \o c>>]
             ELSE CheckFieldBindings(Tail(keys), fld, h,
                      [pending |-> st.pending,
                       trace |-> st.trace \o <<"FindClass " \o c, "GetFieldID " \o c>>])

(***************************************************************************)
(* Environment: the static _vm and the per-thread this_thread.             *)
(* A failed assert aborts in a build with assertions and is skipped in a   *)
(* build with NDEBUG; ndebug is the build.                                 *)
(***************************************************************************)
JavaThreads == {"main", "java"}
NativeThreads == {"worker1", "worker2"}
Threads == JavaThreads \cup NativeThreads

Thread(state, hostAttached) ==
    [state |-> state, env |-> FALSE, attached |-> FALSE, hostAttached |-> hostAttached,
     attaches |-> 0, detaches |-> 0]

\* Environment::load(vm)
Environment_load(v, ndebug) ==
    [vm |-> "vm", abort |-> (v # "nullptr" /\ ~ndebug)]

\* Environment::unload(vm)
Environment_unload(v, ndebug) ==
    [vm |-> "nullptr", abort |-> (v = "nullptr" /\ ~ndebug)]

\* Environment::setEnv(env)
setEnv(v, th, ndebug) ==
    [thread |-> [th EXCEPT !.env = TRUE], abort |-> (v = "nullptr" /\ ~ndebug)]

(***************************************************************************)
(* Environment::getEnv().  With _vm null the assert aborts, or, in a build *)
(* without assertions, a cached _env is returned and a missing one makes   *)
(* the call through the null _vm.                                          *)
(***************************************************************************)
\* a getEnv that asks the host on every call, whatever _env holds
Environment_getEnv_NoCache(v, th, h, attachOk, ndebug) ==
    IF v = "nullptr"
    THEN [thread |-> th, env |-> th.env, crash |-> (~ndebug \/ ~th.env),
          queried |-> ndebug, attachFailed |-> FALSE]
    ELSE LET rc == HostGetEnv(h, th.hostAttached)
         IN  CASE rc = JNI_OK ->
                    [thread |-> [th EXCEPT !.env = TRUE], env |-> TRUE, crash |-> FALSE,
                     queried |-> TRUE, attachFailed |-> FALSE]
               [] rc = JNI_EDETACHED ->
                    IF attachOk
                    THEN [thread |-> [th EXCEPT !.env = TRUE, !.attached = TRUE,
                                                !.hostAttached = TRUE, !.attaches = @ + 1],
                          env |-> TRUE, crash |-> FALSE,
                          queried |-> TRUE, attachFailed |-> FALSE]
                    ELSE [thread |-> th, env |-> FALSE, crash |-> FALSE,
                          queried |-> TRUE, attachFailed |-> TRUE]
               [] OTHER -> [thread |-> th, env |-> FALSE, crash |-> FALSE,
                            queried |-> TRUE, attachFailed |-> FALSE]

\* the result tells, besides the context and the Environment afterwards,
\* whether the host was asked (GetEnv) and whether AttachCurrentThread failed
Environment_getEnv(v, th, h, attachOk, ndebug) ==
    IF v = "nullptr"
    THEN [thread |-> th, env |-> th.env, crash |-> (~ndebug \/ ~th.env),
          queried |-> (ndebug /\ ~th.env), attachFailed |-> FALSE]
    ELSE IF th.env
    THEN [thread |-> th, env |-> TRUE, crash |-> FALSE,
          queried |-> FALSE, attachFailed |-> FALSE]
    ELSE LET rc == HostGetEnv(h, th.hostAttached)
         IN  CASE rc = JNI_OK ->
                    [thread |-> [th EXCEPT !.env = TRUE], env |-> TRUE, crash |-> FALSE,
                     queried |-> TRUE, attachFailed |-> FALSE]
               [] rc = JNI_EDETACHED ->
                    IF attachOk
                    THEN [thread |-> [th EXCEPT !.env = TRUE, !.attached = TRUE,
                                                !.hostAttached = TRUE, !.attaches = @ + 1],
                          env |-> TRUE, crash |-> FALSE,
                          queried |-> TRUE, attachFailed |-> FALSE]
                    ELSE [thread |-> th, env |-> FALSE, crash |-> FALSE,
                          queried |-> TRUE, attachFailed |-> TRUE]
               [] OTHER -> [thread |-> th, env |-> FALSE, crash |-> FALSE,
                            queried |-> TRUE, attachFailed |-> FALSE]

Environment_destroy_AnyThread(v, th) ==
    IF ~th.env THEN th
    ELSE IF v # "nullptr"
    THEN [th EXCEPT !.hostAttached = FALSE, !.detaches = @ + 1]
    ELSE th

\* Environment::~Environment(), run when the thread terminates
Environment_destroy(v, th) ==
    IF ~th.env THEN th
    ELSE IF v # "nullptr" /\ th.attached
    THEN [th EXCEPT !.hostAttached = FALSE, !.detaches = @ + 1]
    ELSE th

\* what java_initialization_impl leaves behind; end is how the call ended:
\* "returned", "escaped" (an exception left the function) or "aborted"
LoadResult(end, rc, v, th, reg, inst, p, trace) ==
    [end |-> end, rc |-> rc, vm |-> v, thread |-> th, fn |-> reg.fn, fld |-> reg.fld,
     installed |-> inst, pending |-> p, trace |-> trace]

(***************************************************************************)
(* java_initialization_impl(vm, initializer) on the loading thread th,     *)
(* which the host has attached.  reg0 and inst0 are the registry and the   *)
(* installed entry points before the call.  A call into the host made      *)
(* while an exception is pending proceeds and leaves it pending.           *)
(***************************************************************************)
java_initialization_impl(h, v, th, reg0, inst0, init, ndebug) ==
    LET rc0 == HostGetEnv(h, TRUE)
        l == Environment_load(v, ndebug)
        e == setEnv(l.vm, th, ndebug)
        reg == RunInitializer(reg0, init.script)
        \* print_registered_bindings() in the initializer prints through JavaOutput
        p0 == JavaOutputSync(init.prints)
        t0 == <<"GetEnv", "Environment::load", "setEnv", "initializer">>
    IN  IF rc0 # JNI_OK
        THEN LoadResult("returned", rc0, v, th, reg0, inst0, NoThrowable, <<"GetEnv">>)
        ELSE IF l.abort
        THEN LoadResult("aborted", JNI_ERR, v, th, reg0, inst0, NoThrowable,
                        <<"GetEnv", "Environment::load">>)
        ELSE IF init.throws = "other"
        THEN LoadResult("escaped", JNI_ERR, l.vm, e.thread, reg, inst0, p0, t0)
        ELSE IF init.throws = "std::exception"
        THEN LoadResult("returned", JNI_ERR, l.vm, e.thread, reg, inst0, p0, t0)
        ELSE LET a == RegisterFunctionBindings(Keys(reg.fn), reg.fn, h,
                          [installed |-> inst0, pending |-> p0, trace |-> t0])
             IN  IF a.returned
                 THEN LoadResult("returned", a.rc, l.vm, e.thread, reg, a.installed,
                                 a.pending, a.trace)
                 ELSE IF a.pending # NoThrowable
                 THEN LoadResult("returned", JNI_ERR, l.vm, e.thread, reg, a.installed,
                                 a.pending, Append(a.trace, "ExceptionCheck"))
                 ELSE LET f == CheckFieldBindings(Keys(reg.fld), reg.fld, h,
                                   [pending |-> a.pending,
                                    trace |-> Append(a.trace, "ExceptionCheck")])
                      IN  IF f.returned
                          THEN LoadResult("returned", f.rc, l.vm, e.thread, reg,
                                          a.installed, f.pending, f.trace)
                          ELSE LoadResult("returned", JNI_VERSION_1_6, l.vm, e.thread, reg,
                                          a.installed, f.pending, f.trace)

(***************************************************************************)
(* JNI_OnLoad, as JAVA_EXTENSION_MODULE defines it, called by the host on  *)
(* thread "main": at the first load, after an unload, or when a failed     *)
(* load is tried again.  The library's statics outlive an unload while a   *)
(* thread still has a this_thread to destroy.                              *)
(***************************************************************************)
MaxLoads == 2

NotLoaded == [state |-> "no", rc |-> JNI_OK, loads |-> 0, pending |-> NoThrowable,
              trace |-> <<>>]

Loaded(r, n) ==
    [state |-> r.end, rc |-> r.rc, loads |-> n, pending |-> r.pending, trace |-> r.trace]

LoadSucceeded == loaded.state = "returned" /\ loaded.rc = JNI_VERSION_1_6
LoadFailed == loaded.state = "returned" /\ loaded.rc # JNI_VERSION_1_6

JNI_OnLoad(ndebug) ==
    /\ ~crashed
    /\ loaded.state \in {"no", "unloaded"} \/ LoadFailed
    /\ threads["main"].state = "running"
    /\ loaded.loads < MaxLoads
    /\ LET r == java_initialization_impl(host, vm, threads["main"],
                    [fn |-> FunctionBindings, fld |-> FieldBindings], installed,
                    initializer, ndebug)
       IN  /\ FunctionBindings' = r.fn
           /\ FieldBindings' = r.fld
           /\ installed' = r.installed
           /\ loaded' = Loaded(r, loaded.loads + 1)
           /\ vm' = r.vm
           /\ threads' = [threads EXCEPT !["main"] = r.thread]
           /\ crashed' = (r.end # "returned")
    /\ UNCHANGED <<initializer, host, callback, refs, lifecycleVars, concVars>>

(***************************************************************************)
(* JNI_OnUnload -> java_termination_impl, called by the host when the      *)
(* class loader of a loaded library is collected; the classes and the      *)
(* entry points installed on them go with it.                              *)
(***************************************************************************)
JNI_OnUnload(ndebug) ==
    /\ ~crashed
    /\ LoadSucceeded
    /\ LET u == Environment_unload(vm, ndebug)
       IN  /\ vm' = u.vm
           /\ crashed' = u.abort
    /\ installed' = {}
    /\ loaded' = [loaded EXCEPT !.state = "unloaded"]
    /\ UNCHANGED <<FunctionBindings, FieldBindings, initializer, host, threads, callback, refs,
                   lifecycleVars, concVars>>

(***************************************************************************)
(* Native threads and the invocation of a captured callable.               *)
(***************************************************************************)
NoInvocation == [thread |-> "", ref |-> 0, valid |-> FALSE, env |-> FALSE,
                 selfAttached |-> FALSE, cached |-> FALSE, queried |-> FALSE,
                 attachFailed |-> FALSE, R |-> "", raised |-> FALSE, steps |-> <<>>,
                 called |-> FALSE, thrown |-> "none", end |-> "none"]

\* GlobalObjectRef(env, obj): one NewGlobalRef, owned by a shared_ptr that the
\* closure holds; copies counts the closure copies (the owners)
GlobalObjectRef == [acquired |-> 1, copies |-> 1, released |-> 0, deleter |-> "none"]

\* a copy of the closure is made: the shared_ptr is copied
CopyRef(r) == [r EXCEPT !.copies = @ + 1]

DropRef_PerCopy(r, g) ==
    [r EXCEPT !.copies = @ - 1,
              !.released = IF g.env /\ ~g.crash THEN @ + 1 ELSE @,
              !.deleter = IF g.crash THEN "crash" ELSE IF g.env THEN "released" ELSE "skipped"]

\* a copy of the closure is destroyed; the last owner runs the deleter, which
\* releases the reference only if getEnv (result g) gave an environment
DropRef(r, g) ==
    IF r.copies > 1 THEN [r EXCEPT !.copies = @ - 1]
    ELSE [r EXCEPT !.copies = 0,
                   !.released = IF g.env /\ ~g.crash THEN @ + 1 ELSE @,
                   !.deleter = IF g.crash THEN "crash"
                               ELSE IF g.env THEN "released" ELSE "skipped"]

\* std::thread(...): a thread the host does not know
StartThread(t) ==
    /\ ~crashed
    /\ threads[t].state = "new"
    /\ threads' = [threads EXCEPT ![t].state = "running"]
    /\ UNCHANGED <<vm, callback, refs, crashed, loadVars, lifecycleVars, concVars>>

\* a copy of the closure made by ArgType<std::function<R(Args...)>>::
\* native_value for callable i, invoked on thread t; cb is what the callable
\* does
InvokeCallback(i, t, R, cb, attachOk, ndebug, ubMsg) ==
    /\ ~crashed
    /\ threads[t].state = "running"
    /\ i \in DOMAIN refs /\ refs[i].copies > 0
    /\ loaded.state \in {"returned", "unloaded"} /\ loaded.rc = JNI_VERSION_1_6
    /\ LET g == Environment_getEnv(vm, threads[t], host, attachOk, ndebug)
           c == Closure(cb, ubMsg)
           inv == [thread |-> t, ref |-> i, valid |-> (refs[i].released = 0), env |-> g.env,
                   selfAttached |-> (g.thread.attaches > threads[t].attaches),
                   cached |-> threads[t].env, queried |-> g.queried,
                   attachFailed |-> g.attachFailed,
                   R |-> R, raised |-> (g.env /\ cb # NoThrowable),
                   steps |-> IF g.env THEN ClosureSteps(R, cb, ubMsg) ELSE <<>>]
       IN  /\ threads' = [threads EXCEPT ![t] = g.thread]
           /\ IF g.crash
              THEN /\ callback' = inv @@ [called |-> FALSE, thrown |-> "none", end |-> "crash"]
                   /\ crashed' = TRUE
              ELSE IF ~g.env
              THEN \* assert(!"consistency failure"); return R();
                   /\ callback' = inv @@ [called |-> FALSE, thrown |-> "none",
                                          end |-> IF ndebug THEN "default" ELSE "crash"]
                   /\ crashed' = ~ndebug
              ELSE /\ callback' = inv @@ [called |-> TRUE, thrown |-> c.thrown,
                                          end |-> IF c.thrown = "crash" THEN "crash"
                                                  ELSE IF c.thrown = "none" THEN "returned"
                                                  ELSE "threw"]
                   /\ crashed' = (c.thrown = "crash")
    /\ UNCHANGED <<vm, refs, loadVars, lifecycleVars, concVars>>

(***************************************************************************)
(* The life of a wrapped callable.                                         *)
(***************************************************************************)
MaxRefs == 2
MaxCopies == 2

\* ArgType<std::function<R(Args...)>>::native_value(env, value), called by an
\* adapter on the host thread t that called the bound function
WrapCallable(t) ==
    /\ ~crashed
    /\ LoadSucceeded
    /\ threads[t].state = "running"
    /\ Len(refs) < MaxRefs
    /\ refs' = Append(refs, GlobalObjectRef)
    /\ UNCHANGED <<vm, threads, callback, crashed, loadVars, lifecycleVars, concVars>>

\* the std::function is copied (as callback_on_native_thread does for its
\* thread)
CopyClosure(i) ==
    /\ ~crashed
    /\ i \in DOMAIN refs /\ refs[i].copies > 0 /\ refs[i].copies < MaxCopies
    /\ refs' = [refs EXCEPT ![i] = CopyRef(@)]
    /\ UNCHANGED <<vm, threads, callback, crashed, loadVars, lifecycleVars, concVars>>

\* a copy of the std::function is destroyed on thread t; the deleter of the
\* last one calls this_thread.getEnv() on that thread
DestroyClosure(i, t, attachOk, ndebug) ==
    /\ ~crashed
    /\ threads[t].state = "running"
    /\ i \in DOMAIN refs /\ refs[i].copies > 0
    /\ LET last1 == refs[i].copies = 1
           g == IF last1 THEN Environment_getEnv(vm, threads[t], host, attachOk, ndebug)
                ELSE [thread |-> threads[t], env |-> threads[t].env, crash |-> FALSE]
       IN  /\ refs' = [refs EXCEPT ![i] = DropRef(@, g)]
           /\ threads' = [threads EXCEPT ![t] = g.thread]
           /\ crashed' = g.crash
    /\ UNCHANGED <<vm, callback, loadVars, lifecycleVars, concVars>>

\* code outside this layer attaches a native thread to the host, so that
\* GetEnv reports JNI_OK on it
AttachByHost(t) ==
    /\ ~crashed
    /\ threads[t].state = "running"
    /\ ~threads[t].hostAttached
    /\ threads' = [threads EXCEPT ![t].hostAttached = TRUE]
    /\ UNCHANGED <<vm, callback, refs, crashed, loadVars, lifecycleVars, concVars>>

\* the thread function returns: this_thread is destroyed
ThreadExit(t) ==
    /\ ~crashed
    /\ threads[t].state = "running"
    /\ threads' = [threads EXCEPT ![t] = [Environment_destroy(vm, threads[t])
                                            EXCEPT !.state = "terminated"]]
    /\ UNCHANGED <<vm, callback, refs, crashed, loadVars, lifecycleVars, concVars>>

(***************************************************************************)
(* One invocation of the closure, in the steps other threads can           *)
(* interleave with: entering it (the arguments are passed by value and the *)
(* environment comes from this_thread), the host running the callable, and *)
(* the return of the unboxed result.                                       *)
(***************************************************************************)
ArgValues == {1, 2}

NoEnvironments == [t \in Threads |-> ""]
Idle == [phase |-> "idle", args |-> 0, env |-> "", seen |-> 0, result |-> 0]
NothingDone == [called |-> FALSE, args |-> 0, result |-> 0]

\* what the callable computes from the argument it is given
Callable(a) == a + a

ThisThread_Static(t) == "main"

\* static thread_local Environment this_thread: the instance thread t uses
ThisThread(t) == t

EnterClosure(t, a, attachOk, ndebug) ==
    /\ ~crashed
    /\ threads[t].state = "running"
    /\ inflight[t].phase = "idle"
    /\ 1 \in DOMAIN refs /\ refs[1].copies > 0
    /\ LET inst == ThisThread(t)
           th == [threads[t] EXCEPT !.env = (envOf[inst] # "")]
           g == Environment_getEnv(vm, th, host, attachOk, ndebug)
           e == IF g.env /\ envOf[inst] = "" THEN [envOf EXCEPT ![inst] = t] ELSE envOf
       IN  /\ threads' = [threads EXCEPT ![t] = g.thread]
           /\ envOf' = e
           /\ IF g.crash
              THEN crashed' = TRUE /\ UNCHANGED <<inflight, done>>
              ELSE IF ~g.env
              THEN /\ crashed' = ~ndebug
                   /\ done' = [done EXCEPT ![t] = [called |-> FALSE, args |-> a, result |-> 0]]
                   /\ UNCHANGED inflight
              ELSE /\ inflight' = [inflight EXCEPT ![t] =
                                     [phase |-> "entered", args |-> a, env |-> e[inst],
                                      seen |-> 0, result |-> 0]]
                   /\ UNCHANGED <<crashed, done>>
    /\ UNCHANGED <<vm, callback, refs, conv, closing, loadVars, nativePointer, holders, deleted,
                   data, nativePointerDeclared, pending, last>>

\* env->CallObjectMethod(fun.ref(), invoke.ref(), boxed args...): the host
\* runs the callable on the thread's boxed arguments.  With the JNIEnv of
\* another thread the call is undefined: it crashes, or passes any values.
RunCallable(t, ub, garbage) ==
    /\ ~crashed
    /\ inflight[t].phase = "entered"
    /\ LET f == inflight[t]
           seen == IF f.env = t THEN f.args ELSE garbage
       IN  IF f.env # t /\ ub = "crash"
           THEN crashed' = TRUE /\ UNCHANGED inflight
           ELSE /\ inflight' = [inflight EXCEPT ![t] =
                                  [f EXCEPT !.phase = "called", !.seen = seen,
                                            !.result = Callable(seen)]]
                /\ UNCHANGED crashed
    /\ UNCHANGED <<envOf, closing, done, conv, loadVars, envVars, lifecycleVars>>

\* return ArgType<R>::native_value(env, java_unbox(env, objResult.ref()))
ReturnFromClosure(t) ==
    /\ ~crashed
    /\ inflight[t].phase = "called"
    /\ done' = [done EXCEPT ![t] = [called |-> TRUE, args |-> inflight[t].args,
                                    result |-> inflight[t].result]]
    /\ inflight' = [inflight EXCEPT ![t] = Idle]
    /\ UNCHANGED <<envOf, closing, conv, crashed, loadVars, envVars, lifecycleVars>>

(***************************************************************************)
(* Conversions of a data class value (DataClassArgType<T>), as the         *)
(* adapters run them on arguments and results.                             *)
(***************************************************************************)
OtherDataClass == "com/kheiron/ktbind/Other"
DataClasses == {DataClass, OtherDataClass}

\* the member variables of the native struct declared for class c, which
\* the class declares as fields of the same names
MembersOf(c) == IF c = DataClass THEN {"b", "str", "s"} ELSE {"i", "l"}

\* the values a member or a field can hold: what the native default
\* constructor leaves, what AllocObject leaves, and two values of a caller
NativeDefault == "native default"
JavaDefault == "java default"
FieldValues == {"x", "y"}

\* the objects of class c a caller can pass, on either side
ObjectsOf(c) == [MembersOf(c) -> FieldValues]
NoObject == <<>>

NoConversion == [dir |-> "none", cls |-> "", key |-> "", applied |-> <<>>, end |-> "none",
                 source |-> NoObject, target |-> NoObject]

\* a loop that copies every member of the source, registered or not
CopyFields_Every(target, source, bs) == source

\* the loop over the bindings: binding.set_by_value(env, obj, fld,
\* &native_object) assigns the member from the field, binding.get_by_value
\* sets the field from the member; nothing else touches the target
RECURSIVE CopyFields(_, _, _)
CopyFields(target, source, bs) ==
    IF bs = <<>> THEN target
    ELSE CopyFields([target EXCEPT ![Head(bs).name] = source[Head(bs).name]], source, Tail(bs))

\* FieldBindings::value[type_sig]: std::map::operator[] inserts an empty
\* vector under a key the map does not hold
MapIndex(tbl, k) ==
    IF k \in DOMAIN tbl THEN [value |-> tbl[k], table |-> tbl]
    ELSE [value |-> <<>>, table |-> tbl @@ (k :> <<>>)]

\* for (auto&& binding : bindings) { Field fld = objClass.getField(...);
\* binding.set_by_value / get_by_value(...) }: stops with a JavaException at
\* the first field the class does not have
ApplyBindings(h, key, bs) ==
    LET bad == { i \in 1..Len(bs) : <<key, bs[i].name, bs[i].signature>> \notin h.fields }
        n == IF bad = {} THEN Len(bs) ELSE Min(bad) - 1
    IN  [applied |-> SubSeq(bs, 1, n),
         thrown |-> IF bad = {} THEN "none" ELSE "JavaException"]

\* DataClassArgType<T>::native_value(env, obj), T declared for class c
DataClass_native_value(h, fld, c, obj) ==
    LET key == TypeSig(c)
        \* T native_object;
        native_object == [m \in MembersOf(c) |-> NativeDefault]
        ix == MapIndex(fld, key)
        a == ApplyBindings(h, key, ix.value)
    IN  [fld |-> ix.table,
         conv |-> [dir |-> "native_value", cls |-> c, key |-> key, applied |-> a.applied,
                   end |-> IF a.thrown = "none" THEN "returned" ELSE "threw",
                   source |-> obj,
                   target |-> CopyFields(native_object, obj, a.applied)]]

\* DataClassArgType<T>::java_value(env, native_object)
DataClass_java_value(h, fld, c, native_object, allocOk) ==
    LET key == TypeSig(c)
        \* env->AllocObject(objClass.ref()): no constructor runs
        obj == [m \in MembersOf(c) |-> JavaDefault]
        ix == MapIndex(fld, key)
        a == ApplyBindings(h, key, ix.value)
    IN  IF ~allocOk
        THEN [fld |-> fld,
              conv |-> [dir |-> "java_value", cls |-> c, key |-> key, applied |-> <<>>,
                        end |-> "threw", source |-> native_object, target |-> NoObject]]
        ELSE [fld |-> ix.table,
              conv |-> [dir |-> "java_value", cls |-> c, key |-> key, applied |-> a.applied,
                        end |-> IF a.thrown = "none" THEN "returned" ELSE "threw",
                        source |-> native_object,
                        target |-> CopyFields(obj, native_object, a.applied)]]

\* an adapter converts an argument of data class c
ConvertArgument(c, obj) ==
    /\ ~crashed
    /\ LoadSucceeded
    /\ LET r == DataClass_native_value(host, FieldBindings, c, obj)
       IN  FieldBindings' = r.fld /\ conv' = r.conv
    /\ UNCHANGED <<FunctionBindings, initializer, host, installed, loaded, crashed,
                   envOf, closing, inflight, done, envVars, lifecycleVars>>

\* an adapter converts a result of data class c
ConvertResult(c, native_object, allocOk) ==
    /\ ~crashed
    /\ LoadSucceeded
    /\ LET r == DataClass_java_value(host, FieldBindings, c, native_object, allocOk)
       IN  FieldBindings' = r.fld /\ conv' = r.conv
    /\ UNCHANGED <<FunctionBindings, initializer, host, installed, loaded, crashed,
                   envOf, closing, inflight, done, envVars, lifecycleVars>>

FullInitializer == [script |-> FullScript, throws |-> "none", prints |-> FALSE]

InitThreads ==
    [t \in Threads |-> IF t \in JavaThreads THEN Thread("running", TRUE)
                       ELSE Thread("new", FALSE)]

InitLifecycle ==
    /\ conv = NoConversion
    /\ envOf = NoEnvironments
    /\ inflight = [t \in Threads |-> Idle]
    /\ closing = [t \in Threads |-> NotClosing]
    /\ done = [t \in Threads |-> NothingDone]
    /\ nativePointer = <<>>
    /\ holders = <<>>
    /\ deleted = <<>>
    /\ data = <<>>
    /\ pending = NoThrowable
    /\ last = NoCall
    /\ crashed = FALSE

InitUnloaded ==
    /\ FunctionBindings = <<>>
    /\ FieldBindings = <<>>
    /\ installed = {}
    /\ loaded = NotLoaded
    /\ vm = "nullptr"
    /\ threads = InitThreads
    /\ callback = NoInvocation

\* the adapters run in a library that JNI_OnLoad has loaded
AfterLoad ==
    java_initialization_impl(FullHost, "nullptr", InitThreads["main"], EmptyRegistry, {},
                             FullInitializer, TRUE)

Init ==
    /\ InitLifecycle
    /\ nativePointerDeclared \in BOOLEAN
    /\ host = FullHost
    /\ initializer = FullInitializer
    /\ FunctionBindings = AfterLoad.fn
    /\ FieldBindings = AfterLoad.fld
    /\ installed = AfterLoad.installed
    /\ loaded = Loaded(AfterLoad, 1)
    /\ vm = AfterLoad.vm
    /\ threads = [InitThreads EXCEPT !["main"] = AfterLoad.thread]
    /\ callback = NoInvocation
    /\ refs = <<>>

\* the inputs of a call that matter: a callback only for the functions that
\* take one, an outcome of undefined behaviour only where the call meets it
\* of the bound functions, the one that only returns is also called with a
\* native-resident argument (a holder)
ArgsOf(b) == IF b = "returns" THEN 0..Len(nativePointer) ELSE {0}
CallbacksOf(b) == IF TakesCallback(b) THEN Callbacks ELSE {NoThrowable}
UBOfMessage(e) == IF e.msg = NullMsg THEN UBOutcomes ELSE {"continue"}
UBOfHandle(ptrs, arg) == IF arg # 0 /\ ptrs[arg] = 0 THEN UBOutcomes ELSE {"continue"}
UBOfDelete(ptrs, del, this) ==
    IF ptrs[this] # 0 /\ del[ptrs[this]] >= 1 THEN UBOutcomes ELSE {"continue"}

\* the constructor entry points of Sample the host holds after the load
CreateEntries(inst) ==
    { e \in inst : e.cls = SampleClass /\ e.entry = "CreateObjectAdapter" }

\* new T(ArgType<Args>::native_value(env, args)...) in CreateObjectAdapter<
\* Sample, Args...>: the constructor of Sample that overload resolution
\* selects for the Args of the binding with this signature
Sample_new(signature) ==
    CASE signature = Signature(<<>>, TypeSig(SampleClass)) -> "Sample()"
      [] signature = Signature(<<StringSig>>, TypeSig(SampleClass)) -> "Sample(std::string)"
      [] OTHER -> "none"

Next ==
    \/ \E b \in Bodies : \E arg \in ArgsOf(b) :
       \E cb \in CallbacksOf(b), ubDeref \in UBOfHandle(nativePointer, arg) :
       \E ubMsg \in UBOfMessage(cb) :
            InvokeAdapter(arg, b, cb, ubDeref, ubMsg)
    \/ \E this \in 1..Len(nativePointer), b \in Bodies : \E arg \in ArgsOf(b) :
       \E cb \in CallbacksOf(b), ubDeref \in UBOfHandle(nativePointer, arg) :
       \E ubMsg \in UBOfMessage(cb) :
            InvokeMemberAdapter(this, arg, b, cb, ubDeref, ubMsg)
    \/ \E e \in CreateEntries(installed), allocOk \in BOOLEAN :
       \E ctor \in {Sample_new(e.signature), "throws"} :
            InvokeCreateObjectAdapter(ctor, allocOk, "continue")
    \/ \E this \in 1..Len(nativePointer) :
       \E ub \in UBOfDelete(nativePointer, deleted, this) :
            InvokeDestroyObjectAdapter(this, ub)

vars == <<lifecycleVars, crashed, loadVars, envVars, concVars>>

Spec == Init /\ [][Next]_vars

(***************************************************************************)
(* SpecOwn: the holders of Sample and the instances they own: the          *)
(* constructor adapter, close(), duplicate(), set_data() and get_data().   *)
(***************************************************************************)
NextOwn ==
    \/ \E e \in CreateEntries(installed), allocOk \in BOOLEAN :
       \E ctor \in {Sample_new(e.signature), "throws"} :
            InvokeCreateObjectAdapter(ctor, allocOk, "continue")
    \/ \E this \in 1..Len(nativePointer) :
       \E ub \in UBOfDelete(nativePointer, deleted, this) :
            InvokeDestroyObjectAdapter(this, ub)
    \/ \E this \in 1..Len(nativePointer), allocOk \in BOOLEAN :
            InvokeDuplicate(this, allocOk, "continue")
    \/ \E this \in 1..Len(nativePointer), d \in DataValues :
            InvokeSetData(this, d)
    \/ \E this \in 1..Len(nativePointer) :
            InvokeGetData(this)

SpecOwn == Init /\ [][NextOwn]_vars

(***************************************************************************)
(* SpecClose: holders of Sample are created, and closed by the threads of  *)
(* the runtime, whose close() calls interleave step by step.               *)
(***************************************************************************)
UBOfSecondDelete(t) ==
    IF closing[t].ptr # 0 /\ deleted[closing[t].ptr] >= 1 THEN UBOutcomes ELSE {"continue"}

NextClose ==
    \/ \E e \in CreateEntries(installed) :
            InvokeCreateObjectAdapter(Sample_new(e.signature), TRUE, "continue")
    \/ \E t \in JavaThreads, this \in 1..Len(nativePointer) : CloseReadHandle(t, this)
    \/ \E t \in JavaThreads : \E ub \in UBOfSecondDelete(t) : CloseDelete(t, ub)
    \/ \E t \in JavaThreads : CloseWriteNull(t)

SpecClose == Init /\ [][NextClose]_vars

(***************************************************************************)
(* SpecLoad: the host loads the library, with any registration function    *)
(* and any host classes.                                                   *)
(***************************************************************************)
BuildOf(cond) == IF cond THEN BOOLEAN ELSE {TRUE}

InitLoad ==
    /\ InitLifecycle
    /\ nativePointerDeclared = TRUE
    /\ host \in Hosts
    /\ initializer \in Initializers
    /\ InitUnloaded
    /\ refs = <<>>

NextLoad ==
    \/ \E ndebug \in BuildOf(vm # "nullptr") : JNI_OnLoad(ndebug)
    \/ JNI_OnUnload(TRUE)

SpecLoad == InitLoad /\ [][NextLoad]_vars

(***************************************************************************)
(* SpecEnv: captured callables invoked on host and native threads, while   *)
(* the library is loaded and unloaded.                                     *)
(***************************************************************************)
InitEnv ==
    /\ InitLifecycle
    /\ nativePointerDeclared = TRUE
    /\ host = FullHost
    /\ initializer = FullInitializer
    /\ InitUnloaded
    /\ refs = <<GlobalObjectRef>>

AttachOutcomes(t) ==
    IF vm # "nullptr" /\ ~threads[t].env /\ ~threads[t].hostAttached
    THEN BOOLEAN ELSE {TRUE}

NextEnv ==
    \/ \E ndebug \in BuildOf(vm # "nullptr") : JNI_OnLoad(ndebug)
    \/ JNI_OnUnload(TRUE)
    \/ \E t \in NativeThreads : StartThread(t)
    \/ \E t \in Threads, cb \in Callbacks :
       \E attachOk \in AttachOutcomes(t) :
       \E ndebug \in BuildOf(vm = "nullptr" \/ ~attachOk), ubMsg \in UBOfMessage(cb) :
            InvokeCallback(1, t, "int", cb, attachOk, ndebug, ubMsg)
    \/ \E t \in NativeThreads : AttachByHost(t)
    \/ \E t \in Threads : ThreadExit(t)

SpecEnv == InitEnv /\ [][NextEnv]_vars

(***************************************************************************)
(* SpecCall: after a successful load, one wrapped callable of either       *)
(* return type is invoked on host and native threads.                      *)
(***************************************************************************)
InitCall ==
    /\ InitLifecycle
    /\ nativePointerDeclared = TRUE
    /\ host = FullHost
    /\ initializer = FullInitializer
    /\ FunctionBindings = AfterLoad.fn
    /\ FieldBindings = AfterLoad.fld
    /\ installed = AfterLoad.installed
    /\ loaded = Loaded(AfterLoad, 1)
    /\ vm = AfterLoad.vm
    /\ threads = [InitThreads EXCEPT !["main"] = AfterLoad.thread]
    /\ callback = NoInvocation
    /\ refs = <<GlobalObjectRef>>

NextCall ==
    \/ \E t \in NativeThreads : StartThread(t)
    \/ \E t \in Threads, R \in ClosureTypes, cb \in Callbacks :
       \E attachOk \in AttachOutcomes(t) :
       \E ndebug \in BuildOf(~attachOk), ubMsg \in UBOfMessage(cb) :
            InvokeCallback(1, t, R, cb, attachOk, ndebug, ubMsg)
    \/ \E t \in Threads : ThreadExit(t)

SpecCall == InitCall /\ [][NextCall]_vars

(***************************************************************************)
(* SpecRef: callables are wrapped, copied, invoked and destroyed on host   *)
(* and native threads.                                                     *)
(***************************************************************************)
\* the threads that hold copies of a closure: a host thread and a native one
RefThreads == {"java", "worker1"}

\* the library has been loaded, as in Init
InitRef ==
    /\ InitLifecycle
    /\ nativePointerDeclared = TRUE
    /\ host = FullHost
    /\ initializer = FullInitializer
    /\ FunctionBindings = AfterLoad.fn
    /\ FieldBindings = AfterLoad.fld
    /\ installed = AfterLoad.installed
    /\ loaded = Loaded(AfterLoad, 1)
    /\ vm = AfterLoad.vm
    /\ threads = [InitThreads EXCEPT !["main"] = AfterLoad.thread]
    /\ callback = NoInvocation
    /\ refs = <<>>

NextRef ==
    \/ JNI_OnUnload(TRUE)
    \/ \E t \in RefThreads \cap NativeThreads : StartThread(t)
    \/ \E t \in RefThreads \cap JavaThreads : WrapCallable(t)
    \/ \E i \in DOMAIN refs : CopyClosure(i)
    \/ \E i \in DOMAIN refs, t \in RefThreads :
       \E attachOk \in AttachOutcomes(t) :
       \E ndebug \in BuildOf(vm = "nullptr" \/ ~attachOk) :
            InvokeCallback(i, t, "int", NoThrowable, attachOk, ndebug, "continue")
    \/ \E i \in DOMAIN refs, t \in RefThreads :
       \E attachOk \in AttachOutcomes(t) :
       \E ndebug \in BuildOf(vm = "nullptr") :
            DestroyClosure(i, t, attachOk, ndebug)

SpecRef == InitRef /\ [][NextRef]_vars

(***************************************************************************)
(* SpecData: the library is loaded with any short sequence of              *)
(* data_class<T>().field(...) calls after the native class registrations,  *)
(* then values of the declared data classes are converted.                 *)
(***************************************************************************)
MaxFields == 3

FieldCalls ==
    { RegistrationCall("field", DataClass, "b", <<>>, "Z", FALSE),
      RegistrationCall("field", DataClass, "str", <<>>, StringSig, FALSE),
      RegistrationCall("field", OtherDataClass, "i", <<>>, "I", FALSE) }

FieldScripts == UNION { [1..k -> FieldCalls] : k \in 0..MaxFields }

DataHost ==
    [classes |-> AllClasses \cup {TypeSig(OtherDataClass)},
     natives |-> AllNatives,
     fields |-> { <<TypeSig(f.cls), f.name, f.ret>> : f \in FieldCalls },
     versionOk |-> TRUE, namesMethod |-> TRUE]

InitData ==
    /\ InitLifecycle
    /\ nativePointerDeclared = TRUE
    /\ host = DataHost
    /\ \E fs \in FieldScripts :
          initializer = [script |-> SampleChain \o fs, throws |-> "none", prints |-> FALSE]
    /\ InitUnloaded
    /\ refs = <<>>

NextData ==
    \/ JNI_OnLoad(TRUE)
    \/ \E c \in DataClasses : \E obj \in ObjectsOf(c) : ConvertArgument(c, obj)
    \/ \E c \in DataClasses, allocOk \in BOOLEAN :
       \E native_object \in ObjectsOf(c) : ConvertResult(c, native_object, allocOk)

SpecData == InitData /\ [][NextData]_vars

(***************************************************************************)
(* SpecConc: one captured callable, invoked from a host thread and from    *)
(* two running native threads, the invocations interleaved step by step.   *)
(***************************************************************************)
ConcThreads == {"java", "worker1", "worker2"}

InitConc ==
    /\ nativePointer = <<>>
    /\ holders = <<>>
    /\ deleted = <<>>
    /\ data = <<>>
    /\ pending = NoThrowable
    /\ last = NoCall
    /\ crashed = FALSE
    /\ nativePointerDeclared = TRUE
    /\ host = FullHost
    /\ initializer = FullInitializer
    /\ FunctionBindings = AfterLoad.fn
    /\ FieldBindings = AfterLoad.fld
    /\ installed = AfterLoad.installed
    /\ loaded = Loaded(AfterLoad, 1)
    /\ vm = AfterLoad.vm
    /\ threads = [t \in Threads |->
                    IF t = "main" THEN AfterLoad.thread
                    ELSE IF t \in JavaThreads THEN Thread("running", TRUE)
                    ELSE Thread("running", FALSE)]
    /\ callback = NoInvocation
    /\ refs = <<GlobalObjectRef>>
    /\ envOf = [NoEnvironments EXCEPT !["main"] = "main"]
    /\ inflight = [t \in Threads |-> Idle]
    /\ closing = [t \in Threads |-> NotClosing]
    /\ done = [t \in Threads |-> NothingDone]
    /\ conv = NoConversion

ForeignEnvOutcomes(t) == IF inflight[t].env = t THEN {"continue"} ELSE UBOutcomes
ForeignEnvValues(t) == IF inflight[t].env = t THEN {inflight[t].args} ELSE ArgValues

NextConc ==
    \/ \E t \in ConcThreads, a \in ArgValues :
       \E attachOk \in AttachOutcomes(t) :
            EnterClosure(t, a, attachOk, TRUE)
    \/ \E t \in ConcThreads :
       \E ub \in ForeignEnvOutcomes(t), garbage \in ForeignEnvValues(t) :
            RunCallable(t, ub, garbage)
    \/ \E t \in ConcThreads : ReturnFromClosure(t)

SpecConc == InitConc /\ [][NextConc]_vars

(***************************************************************************)
(* Conversions of strings (ArgType<std::string>).  A native string is the  *)
(* sequence of its bytes, UTF-8; a runtime string is the sequence of its   *)
(* UTF-16 code units.                                                      *)
(***************************************************************************)
MaxStrLen == 3

\* the characters of the native strings converted: U+0061, U+00E9, U+0000
Chars == {"a", "e acute", "NUL"}

\* the UTF-8 encoding of a character
Utf8(c) == CASE c = "a" -> <<97>>
             [] c = "e acute" -> <<195, 169>>
             [] OTHER -> <<0>>

RECURSIVE Utf8String(_)
Utf8String(cs) == IF cs = <<>> THEN <<>> ELSE Utf8(Head(cs)) \o Utf8String(Tail(cs))

NativeStrings == { Utf8String(cs) : cs \in UNION { [1..n -> Chars] : n \in 0..MaxStrLen } }

\* a const char* read as a C string: the bytes before the first zero byte
RECURSIVE CString(_)
CString(bytes) ==
    IF bytes = <<>> \/ Head(bytes) = 0 THEN <<>> ELSE <<Head(bytes)>> \o CString(Tail(bytes))

\* the host decodes modified UTF-8 into code units (one- and two-byte forms)
RECURSIVE DecodeModifiedUtf8(_)
DecodeModifiedUtf8(bytes) ==
    IF bytes = <<>> THEN <<>>
    ELSE IF Head(bytes) < 128 \/ Len(bytes) = 1
    THEN <<Head(bytes)>> \o DecodeModifiedUtf8(Tail(bytes))
    ELSE <<(bytes[1] - 192) * 64 + (bytes[2] - 128)>> \o DecodeModifiedUtf8(Tail(Tail(bytes)))

\* the host encodes code units as modified UTF-8: U+0000 and U+0080 to
\* U+07FF take two bytes
RECURSIVE EncodeModifiedUtf8(_)
EncodeModifiedUtf8(units) ==
    IF units = <<>> THEN <<>>
    ELSE LET u == Head(units)
         IN  (IF u >= 1 /\ u <= 127 THEN <<u>>
              ELSE <<192 + (u \div 64), 128 + (u % 64)>>) \o EncodeModifiedUtf8(Tail(units))

\* JNIEnv::NewStringUTF(const char*)
NewStringUTF(bytes) == DecodeModifiedUtf8(CString(bytes))

\* JNIEnv::GetStringUTFLength and JNIEnv::GetStringUTFChars
GetStringUTFLength(value) == Len(EncodeModifiedUtf8(value))
GetStringUTFChars(value) == EncodeModifiedUtf8(value)

\* ArgType<std::string>::java_value(env, value): NewStringUTF(value.data())
String_java_value(value) == NewStringUTF(value)

\* ArgType<std::string>::native_value(env, value)
String_native_value(value) ==
    LET len == GetStringUTFLength(value)
    IN  IF len > 0 THEN SubSeq(GetStringUTFChars(value), 1, len) ELSE <<>>

(***************************************************************************)
(* Conversions of collections of strings: std::vector<std::string> and     *)
(* java.util.ArrayList as sequences, std::set<std::string> and             *)
(* java.util.TreeSet as sets, std::map<std::string, std::vector<           *)
(* std::string>> and java.util.TreeMap as functions.                       *)
(***************************************************************************)
MaxElems == 2

\* the strings the collections converted hold: "", "a", U+00E9 and a string
\* of three bytes whose second byte is zero
ElementStrings == { <<>>, <<97>>, <<195, 169>>, <<97, 0, 97>> }
KeyStrings == { <<97>>, <<195, 169>> }

NativeLists == UNION { [1..n -> ElementStrings] : n \in 0..MaxElems }
NativeSets == { S \in SUBSET ElementStrings : Cardinality(S) <= MaxElems }
NativeMaps == UNION { [K -> NativeLists] : K \in SUBSET KeyStrings }

\* ListArgType<L, T>::java_value: ArrayList.add of each element in order
List_java_value(nativeList) ==
    [i \in 1..Len(nativeList) |-> String_java_value(nativeList[i])]

\* ListArgType<L, T>::native_value: push_back of get(i) for i < size()
List_native_value(list) ==
    [i \in 1..Len(list) |-> String_native_value(list[i])]

\* SetArgType<S, E>::java_value: Set.add of each item
Set_java_value(nativeSet) == { String_java_value(item) : item \in nativeSet }

\* SetArgType<S, E>::native_value: insert of each element the iterator gives
Set_native_value(set) == { String_native_value(element) : element \in set }

\* MapArgType<M, K, V>::java_value: Map.put of each item
Map_java_value(nativeMap) ==
    [ key \in { String_java_value(k) : k \in DOMAIN nativeMap } |->
        List_java_value(nativeMap[CHOOSE k \in DOMAIN nativeMap : String_java_value(k) = key]) ]

\* MapArgType<M, K, V>::native_value: nativeMap[key] = value for each entry
Map_native_value(map) ==
    [ key \in { String_native_value(k) : k \in DOMAIN map } |->
        List_native_value(map[CHOOSE k \in DOMAIN map : String_native_value(k) = key]) ]

(***************************************************************************)
(* Conversion of a value by its type.                                      *)
(***************************************************************************)
java_value(kind, x) ==
    CASE kind = "string" -> String_java_value(x)
      [] kind = "list" -> List_java_value(x)
      [] kind = "set" -> Set_java_value(x)
      [] kind = "map" -> Map_java_value(x)

native_value(kind, j) ==
    CASE kind = "string" -> String_native_value(j)
      [] kind = "list" -> List_native_value(j)
      [] kind = "set" -> Set_native_value(j)
      [] kind = "map" -> Map_native_value(j)

\* the native values an adapter may be given to return
NativeValues(kind) ==
    CASE kind = "string" -> NativeStrings
      [] kind = "list" -> NativeLists
      [] kind = "set" -> NativeSets
      [] kind = "map" -> NativeMaps

ValueKinds == {"string", "list", "set", "map"}

\* a bound function returns the native value conv.source: the adapter
\* converts it with ArgType<R>::java_value
ReturnValue ==
    /\ ~crashed
    /\ conv.dir = "result"
    /\ conv' = [conv EXCEPT !.dir = "java_value",
                            !.target = java_value(conv.kind, conv.source)]
    /\ UNCHANGED <<envOf, closing, inflight, done, crashed, loadVars, envVars, lifecycleVars>>

\* the runtime passes the value it was returned to a bound function: the
\* adapter converts it with ArgType<A>::native_value
PassValue ==
    /\ ~crashed
    /\ conv.dir = "java_value"
    /\ conv.kind \in ValueKinds
    /\ conv' = [conv EXCEPT !.dir = "native_value",
                            !.back = native_value(conv.kind, conv.target)]
    /\ UNCHANGED <<envOf, closing, inflight, done, crashed, loadVars, envVars, lifecycleVars>>

(***************************************************************************)
(* SpecValue: a native value of a convertible type is returned to the      *)
(* runtime and passed back.                                                *)
(***************************************************************************)
InitValue ==
    /\ nativePointer = <<>>
    /\ holders = <<>>
    /\ deleted = <<>>
    /\ data = <<>>
    /\ pending = NoThrowable
    /\ last = NoCall
    /\ crashed = FALSE
    /\ nativePointerDeclared = TRUE
    /\ host = FullHost
    /\ initializer = FullInitializer
    /\ FunctionBindings = AfterLoad.fn
    /\ FieldBindings = AfterLoad.fld
    /\ installed = AfterLoad.installed
    /\ loaded = Loaded(AfterLoad, 1)
    /\ vm = AfterLoad.vm
    /\ threads = [InitThreads EXCEPT !["main"] = AfterLoad.thread]
    /\ callback = NoInvocation
    /\ refs = <<>>
    /\ envOf = NoEnvironments
    /\ inflight = [t \in Threads |-> Idle]
    /\ closing = [t \in Threads |-> NotClosing]
    /\ done = [t \in Threads |-> NothingDone]
    /\ \E kind \in ValueKinds : \E x \in NativeValues(kind) :
          conv = [dir |-> "result", kind |-> kind, source |-> x, target |-> <<>>,
                  back |-> <<>>]

NextValue == ReturnValue \/ PassValue

SpecValue == InitValue /\ [][NextValue]_vars

(***************************************************************************)
(* Function<F>::signature: the wire signature of a bound function, from    *)
(* the type of the function pointer.                                       *)
(***************************************************************************)
MaxParams == 2

\* the native types of parameters and results, and void
NativeTypes == {"bool", "long", "std::string"}
ResultTypes == NativeTypes \cup {"void"}

\* a parameter type: a native type taken by value or by const reference
ParamTypes == [type : NativeTypes, qualifier : {"", "const&"}]

\* the forms of function pointer Function<F> is specialised for
FunctionForms == {"R(*)(Args...)", "R(T::*)(Args...)", "R(T::*)(Args...) const"}

FunctionTypes ==
    [form : FunctionForms, receiver : {SampleClass}, result : ResultTypes,
     params : UNION { [1..n -> ParamTypes] : n \in 0..MaxParams }]

\* std::decay_t<Args>: the type without its reference and const
decay_t(param) == [param EXCEPT !.qualifier = ""]

\* ArgType<T>::type_sig; only unqualified types have an ArgType
ArgType_type_sig(t) ==
    IF t.qualifier # "" THEN "?"
    ELSE CASE t.type = "bool" -> "Z"
           [] t.type = "long" -> "J"
           [] t.type = "std::string" -> StringSig
           [] t.type = "void" -> "V"

\* a Function<R(T::*)(Args...)> that counts the receiver as a parameter
Function_Args_WithReceiver(f) ==
    (IF f.form = "R(*)(Args...)" THEN <<>> ELSE <<TypeSig(f.receiver)>>)
        \o [i \in 1..Len(f.params) |-> ArgType_type_sig(decay_t(f.params[i]))]

\* the ArgType<Args>::type_sig... of Function<R(std::decay_t<Args>...)>, which
\* each of the three specialisations of Function delegates to
Function_Args(f) ==
    CASE f.form = "R(*)(Args...)" ->
            [i \in 1..Len(f.params) |-> ArgType_type_sig(decay_t(f.params[i]))]
      [] f.form = "R(T::*)(Args...)" ->
            [i \in 1..Len(f.params) |-> ArgType_type_sig(decay_t(f.params[i]))]
      [] f.form = "R(T::*)(Args...) const" ->
            [i \in 1..Len(f.params) |-> ArgType_type_sig(decay_t(f.params[i]))]

\* native_class<T>().function<func>(name), func of type f
FunctionCall(c, name, f) ==
    RegistrationCall("function", c, name, Function_Args(f),
                     ArgType_type_sig([type |-> f.result, qualifier |-> ""]),
                     f.form # "R(*)(Args...)")
        @@ [func |-> f]

(***************************************************************************)
(* SpecSig: the library is loaded with a registration function that binds  *)
(* one function of any of the function types to Sample, by a host whose    *)
(* class Sample declares that native method.                               *)
(***************************************************************************)
SigScript(f) ==
    << RegistrationCall("native_class", SampleClass, "", <<>>, "", FALSE) @@ [func |-> <<>>],
       FunctionCall(SampleClass, "f", f) >>

InitSig ==
    /\ InitLifecycle
    /\ nativePointerDeclared = TRUE
    /\ \E f \in FunctionTypes :
          /\ initializer = [script |-> SigScript(f), throws |-> "none", prints |-> FALSE]
          /\ host = [classes |-> AllClasses,
                     natives |-> NativesOf(RunInitializer(EmptyRegistry, SigScript(f)).fn),
                     fields |-> AllFields, versionOk |-> TRUE, namesMethod |-> TRUE]
    /\ InitUnloaded
    /\ refs = <<>>

NextSig == JNI_OnLoad(TRUE)

SpecSig == InitSig /\ [][NextSig]_vars

(***************************************************************************)
(* Properties of the adapters (specification Spec).                        *)
(***************************************************************************)

\* C1: for a holder made by a constructor adapter, close() called once or
\* more destroys the native instance exactly once: after the first close the
\* instance has been deleted once and the stored handle is null; a later
\* close reads a null handle, deletes nothing and leaves no exception pending.
C1_CloseDestroysExactlyOnce ==
    /\ \A h \in DOMAIN holders :
          (holders[h].by = "constructor" /\ holders[h].closes >= 1) =>
              /\ deleted[holders[h].instance] = 1
              /\ nativePointer[h] = 0
    /\ (last.adapter = "DestroyObjectAdapter") =>
          /\ pending = NoThrowable
          /\ last.raised = 0
          /\ ~crashed
          /\ (holders[last.this].closes >= 2 => last.thisHandle = 0 /\ ~last.invoked)

\* a holder made by a constructor adapter has just been closed a second time
C1_Witness ==
    /\ last.adapter = "DestroyObjectAdapter"
    /\ holders[last.this].by = "constructor"
    /\ holders[last.this].closes >= 2

\* C2: a bound function given a disposed holder (null handle) as an argument
\* of a native-resident type fails with the "disposed object" error, never
\* dereferences the null handle and never invokes the native function.
C2_DisposedArgumentFails ==
    (/\ last.adapter \in {"Adapter", "MemberAdapter"}
     /\ last.arg # 0
     /\ last.argHandle = 0) =>
        /\ pending = ThrowNew("java/lang/Exception", DisposedMsg)
        /\ ~last.nullDeref
        /\ ~last.invoked
        /\ ~crashed

\* C3: an instance-method adapter called on a holder whose handle is null
\* raises one runtime exception with the "has already been disposed of"
\* message and returns the default wire value; no argument is converted and
\* the native method is not invoked.
C3_DisposedReceiverRaises ==
    (last.adapter = "MemberAdapter" /\ last.thisHandle = 0) =>
        /\ pending = ThrowNew("java/lang/Exception", DisposedMsg)
        /\ last.raised = 1
        /\ last.ret = "default"
        /\ ~last.argsConverted
        /\ ~last.invoked
        /\ ~crashed

\* an instance method with a native-resident argument was called on a disposed holder
C3_Witness ==
    /\ last.adapter = "MemberAdapter"
    /\ last.thisHandle = 0
    /\ last.arg # 0
    /\ last.ret = "default"

\* C6: in a function, member-function or constructor adapter, a
\* std::exception (not a JavaException) thrown while no runtime exception is
\* pending leaves exactly one pending java.lang.Exception whose message is
\* what(); the adapter returns the default wire result and the native
\* exception does not leave the adapter.
C6_NativeExceptionTranslated ==
    (/\ last.adapter \in {"Adapter", "MemberAdapter", "CreateObjectAdapter"}
     /\ last.thrown = "std::exception"
     /\ last.pendingAtCatch = NoThrowable) =>
        /\ pending = ThrowNew("java/lang/Exception", last.what)
        /\ last.raised = 1
        /\ last.ret = "default"
        /\ ~crashed

\* raise_native_exception was called through a function adapter
C6_Witness ==
    /\ last.adapter = "Adapter"
    /\ last.body = "raise_native_exception"
    /\ last.thrown = "std::exception"
    /\ last.what = ExpectedError
    /\ pending.msg = ExpectedError

\* C7: when a callback raises a runtime exception, the JavaException wrapper
\* records that exception object and its message and clears the pending
\* exception; when the wrapper reaches the adapter frame uncaught, the adapter
\* re-throws the very exception object that was captured.
C7_CallbackExceptionIdentity ==
    (last.called /\ last.cb # NoThrowable) =>
        /\ ~crashed
        /\ last.captured = last.cb
        /\ last.what = (IF last.cb.msg = NullMsg THEN "" ELSE last.cb.msg)
        /\ last.pendingAtCatch = NoThrowable
        /\ (last.body = "pass_callback" => pending = last.cb /\ last.raised = 1)

\* C8: when a runtime exception is already pending as a native exception
\* reaches the adapter frame, nothing new is raised and the pending exception
\* is the one the caller sees; an adapter raises only while nothing is
\* pending, so at most one exception is pending when it returns.
C8_PendingExceptionKept ==
    /\ (last.thrown = "std::exception" /\ last.pendingAtCatch # NoThrowable) =>
          /\ pending = last.pendingAtCatch
          /\ last.raised = 0
    /\ (last.raised >= 1) =>
          /\ last.raised = 1
          /\ last.pendingAtCatch = NoThrowable

\* a native exception reached the adapter frame while the print error was pending
C8_Witness ==
    /\ last.thrown = "std::exception"
    /\ last.pendingAtCatch = PrintError
    /\ last.ret = "default"

\* C9: when native code catches the JavaException of a callback and returns
\* normally, the adapter returns a normal result and no runtime exception is
\* pending.
C9_CaughtExceptionCleared ==
    last.caught =>
        /\ last.ret = "value"
        /\ pending = NoThrowable
        /\ last.raised = 0
        /\ ~crashed

\* catch_java_exception was called with a callback that raised
C9_Witness ==
    /\ last.body = "catch_java_exception"
    /\ last.cb # NoThrowable
    /\ last.caught

(***************************************************************************)
(* Properties of the load routine (specification SpecLoad).                *)
(***************************************************************************)

\* C4: when java_initialization_impl has returned a failure, no native entry
\* point is installed on any class: neither those of the classes processed
\* before the failing one, nor the function bindings when a data-class field
\* is missing.
C4_FailedLoadInstallsNothing == LoadFailed => installed = {}

\* C5: every call of java_initialization_impl returns, and it returns
\* JNI_VERSION_1_6 exactly when the environment was resolved, the
\* registration function completed without throwing, every registered class
\* resolved, every installation succeeded, no exception was pending after
\* installation and every registered field exists.
C5_VersionIffEverythingResolved ==
    loaded.state \notin {"no", "unloaded"} =>
        /\ loaded.state = "returned"
        /\ loaded.rc = JNI_VERSION_1_6 <=>
              /\ host.versionOk
              /\ initializer.throws = "none"
              /\ (DOMAIN FunctionBindings \cup DOMAIN FieldBindings) \subseteq host.classes
              /\ NativesOf(FunctionBindings) \subseteq host.natives
              /\ ~initializer.prints
              /\ FieldsOf(FieldBindings) \subseteq host.fields

(***************************************************************************)
(* Properties of the execution context (specification SpecEnv).            *)
(***************************************************************************)

\* C10: an invocation that attached its native thread calls the callable,
\* and a terminated native thread that attached itself has been detached
\* exactly once, whatever loads, unloads and invocations happened meanwhile.
C10_SelfAttachedThreadDetachedOnce ==
    /\ callback.selfAttached => callback.thread \in NativeThreads /\ callback.called
    /\ \A t \in NativeThreads :
          /\ threads[t].detaches <= threads[t].attaches
          /\ threads[t].state = "terminated" /\ threads[t].attaches >= 1
                => threads[t].detaches = 1

\* C11: a thread whose context came from the host (GetEnv reported JNI_OK,
\* or load set it) is never detached by this layer; a thread is detached
\* only after this layer's own AttachCurrentThread succeeded on it, and not
\* more often than that.
C11_HostContextNeverDetached ==
    \A t \in Threads :
        /\ threads[t].detaches <= threads[t].attaches
        /\ ~threads[t].attached => threads[t].detaches = 0
        /\ t \in JavaThreads => threads[t].detaches = 0

\* a thread that took its context from the host has terminated while the
\* library was loaded, and was left attached
C11_Witness ==
    \E t \in Threads :
        /\ threads[t].state = "terminated"
        /\ threads[t].env /\ ~threads[t].attached
        /\ vm # "nullptr"
        /\ threads[t].hostAttached /\ threads[t].detaches = 0

\* C13: an invocation of a callback closure on a thread for which no
\* environment could be acquired ends the process; it never returns to its
\* native caller.
C13_NoContextIsFatal ==
    callback.thread # "" /\ ~callback.env => callback.end = "crash"

(***************************************************************************)
(* Properties of wrapped callables (specification SpecRef).                *)
(***************************************************************************)

C14_InvocationsIsolated ==
    \A t \in Threads :
        /\ inflight[t].phase # "idle" => inflight[t].env = t
        /\ inflight[t].phase = "called" =>
              /\ inflight[t].seen = inflight[t].args
              /\ inflight[t].result = Callable(inflight[t].args)
        /\ done[t].called => done[t].result = Callable(done[t].args)

\* two native threads are inside the callable at once with different
\* arguments, after a third invocation has completed on a host thread
C14_Witness ==
    /\ inflight["worker1"].phase = "called"
    /\ inflight["worker2"].phase = "called"
    /\ inflight["worker1"].args # inflight["worker2"].args
    /\ done["java"].called

(***************************************************************************)
(* Properties of the binding tables (specification SpecData).              *)
(***************************************************************************)

\* C15: once load has completed, no step of an adapter or of a value
\* conversion adds, removes or changes an entry of the function-binding or
\* field-binding table, also when the converted data class has no
\* registered field.
C15_TablesFrozenAfterLoad ==
    [][LoadSucceeded => /\ FunctionBindings' = FunctionBindings
                        /\ FieldBindings' = FieldBindings]_vars

\* C20: after load the field-binding table holds, under the wire signature
\* of each data class, one FieldBinding per field call made for that class,
\* in call order; a completed conversion of a value of the class, in either
\* direction, has looked up that key and applied exactly those bindings,
\* each once, in that order.
C20_FieldBindingsInCallOrder ==
    LoadSucceeded =>
        /\ \A c \in DataClasses :
              LET calls == SelectSeq(initializer.script,
                                     LAMBDA x : x.op = "field" /\ x.cls = c)
                  held == IF TypeSig(c) \in DOMAIN FieldBindings
                          THEN FieldBindings[TypeSig(c)] ELSE <<>>
              IN  /\ Len(held) = Len(calls)
                  /\ \A i \in 1..Len(calls) :
                        held[i].name = calls[i].name /\ held[i].signature = calls[i].ret
                  /\ conv.end = "returned" /\ conv.cls = c =>
                        conv.key = TypeSig(c) /\ conv.applied = held
        /\ DOMAIN FieldBindings \subseteq { TypeSig(c) : c \in DataClasses }

\* a class with two different registered fields and one with a single field
\* were both converted: the first to a native value, after which a result of
\* it was converted back
C20_Witness ==
    /\ LoadSucceeded
    /\ Len(conv.applied) = 2 /\ conv.applied[1].name # conv.applied[2].name
    /\ conv.dir = "java_value" /\ conv.end = "returned"
    /\ TypeSig(OtherDataClass) \in DOMAIN FieldBindings
    /\ Len(FieldBindings[TypeSig(OtherDataClass)]) = 1


\* C16: a holder's handle only moves Uninitialized -> Live -> Disposed.  In
\* every step of the adapters: the handle of an existing holder changes only
\* from non-null to null, and only in a close() of that holder; a null
\* handle stays null whatever bound operation runs; a holder that close()
\* was called on has a null handle; and a non-null handle appears only in a
\* holder that did not exist before, made by the constructor adapter or by a
\* by-value return, and refers to an instance that did not exist before.
C16_HandleOnlyMovesForward ==
    [][/\ \A h \in DOMAIN nativePointer :
            /\ h \in DOMAIN nativePointer'
            /\ nativePointer[h] = 0 => nativePointer'[h] = 0
            /\ nativePointer'[h] # nativePointer[h] =>
                    /\ nativePointer'[h] = 0
                    /\ last'.adapter = "DestroyObjectAdapter"
                    /\ last'.this = h
            /\ holders'[h].closes >= 1 => nativePointer'[h] = 0
       /\ \A h \in DOMAIN nativePointer' \ DOMAIN nativePointer :
            /\ h = Len(nativePointer) + 1
            /\ nativePointer'[h] = Len(deleted) + 1
            /\ Len(deleted') = Len(deleted) + 1
            /\ deleted'[nativePointer'[h]] = 0
            /\ \/ last'.adapter = "CreateObjectAdapter"
               \/ last'.adapter = "MemberAdapter" /\ last'.body = "duplicate"
            /\ last'.stored]_vars

\* a holder made by a by-value return has been disposed, and a bound method
\* was then called on it
C16_Witness ==
    \E h \in DOMAIN nativePointer :
        /\ holders[h].by = "return"
        /\ holders[h].closes >= 1
        /\ nativePointer[h] = 0
        /\ last.adapter = "MemberAdapter"
        /\ last.this = h
        /\ last.raised = 1


\* C17: a constructor adapter call that ends without an exception has
\* created exactly one native instance, by the constructor of Sample that
\* matches the signature of a registered binding, and returns a holder that
\* did not exist before, whose handle is that instance and which nothing has
\* closed: it is Live.  No other holder and no other instance changes.
C17_ConstructorMakesOneLiveHolder ==
    [][(/\ last'.adapter = "CreateObjectAdapter"
        /\ last'.thrown = "none"
        /\ pending' = NoThrowable)
       => /\ Len(deleted') = Len(deleted) + 1
          /\ Len(nativePointer') = Len(nativePointer) + 1
          /\ nativePointer'[Len(nativePointer')] = Len(deleted')
          /\ deleted'[Len(deleted')] = 0
          /\ data'[Len(deleted')] = DefaultData
          /\ holders'[Len(nativePointer')] =
                [instance |-> Len(deleted'), by |-> "constructor", closes |-> 0]
          /\ last'.this = Len(nativePointer')
          /\ last'.thisHandle = Len(deleted')
          /\ last'.ret = "value"
          /\ last'.body \in { Sample_new(e.signature) : e \in CreateEntries(installed) }
          /\ last'.body \in {"Sample()", "Sample(std::string)"}
          /\ \A h \in DOMAIN nativePointer : nativePointer'[h] = nativePointer[h]
          /\ \A p \in DOMAIN deleted : deleted'[p] = deleted[p] /\ data'[p] = data[p]]_vars

\* the create(String) constructor has made a second Live holder
C17_Witness ==
    /\ last.adapter = "CreateObjectAdapter"
    /\ last.body = "Sample(std::string)"
    /\ last.thrown = "none"
    /\ last.this = 2
    /\ nativePointer[2] = last.thisHandle
    /\ nativePointer[2] # 0
    /\ holders[2].closes = 0


\* C18: a holder returned by value owns an instance of its own.  In every
\* step: the Live holders have pairwise different handles, and the holder
\* duplicate() returns refers to a new instance whose _data is a copy of
\* the receiver's; an operation through one holder (set_data, close,
\* duplicate, get_data) leaves every other Live holder's handle, instance
\* and _data as they were, the instance not deleted; and get_data through
\* a holder returns the _data of that holder's own instance.
C18_ReturnedHolderOwnsItsInstance ==
    [][/\ \A h, g \in DOMAIN nativePointer' :
            (h # g /\ nativePointer'[h] # 0 /\ nativePointer'[g] # 0)
                => nativePointer'[h] # nativePointer'[g]
       /\ (last'.adapter = "MemberAdapter" /\ last'.body = "duplicate" /\ last'.stored)
            => /\ last'.value = Len(nativePointer) + 1
               /\ holders'[last'.value].by = "return"
               /\ nativePointer'[last'.value] = Len(deleted) + 1
               /\ nativePointer'[last'.value] # nativePointer'[last'.this]
               /\ data'[nativePointer'[last'.value]] = data[nativePointer[last'.this]]
       /\ \A g \in DOMAIN nativePointer :
            (nativePointer[g] # 0 /\ last'.this # g)
                => /\ nativePointer'[g] = nativePointer[g]
                   /\ deleted'[nativePointer[g]] = 0
                   /\ data'[nativePointer[g]] = data[nativePointer[g]]
       /\ (last'.adapter = "MemberAdapter" /\ last'.body = "get_data"
                /\ last'.thisHandle # 0)
            => /\ last'.value = data[last'.thisHandle]
               /\ last'.raised = 0]_vars

\* as in the test: the receiver was given other data after duplicate(), and
\* get_data through the duplicate still returns the data copied
C18_Witness ==
    /\ Len(nativePointer) = 2
    /\ holders[2].by = "return"
    /\ nativePointer[1] # 0
    /\ nativePointer[2] # 0
    /\ data[nativePointer[1]] = KotlinData
    /\ last.adapter = "MemberAdapter"
    /\ last.body = "get_data"
    /\ last.this = 2
    /\ last.value = DefaultData


\* C19: two constructors of one class registered under one exposed name
\* with different native signatures give two bindings of that name with
\* different wire signatures, and both reach the runtime at load.  When the
\* initializer that registers Sample() and Sample(std::string) as "create"
\* has run, the bindings of Sample named "create" carry exactly the wire
\* signatures ()Lcom/kheiron/ktbind/Sample; and
\* (Ljava/lang/String;)Lcom/kheiron/ktbind/Sample;, one binding each per run
\* of the initializer, two after a first load; and after a successful load
\* the host holds one entry point for each signature.
C19_OverloadedConstructorsBothBound ==
    (/\ \E i \in DOMAIN initializer.script :
            initializer.script[i].op = "constructor" /\ initializer.script[i].cls = SampleClass
     /\ \E k \in DOMAIN loaded.trace : loaded.trace[k] = "initializer")
    => /\ SampleClass \in DOMAIN FunctionBindings
       /\ LET bs == FunctionBindings[SampleClass]
              creates == { i \in DOMAIN bs : bs[i].name = "create" }
              sigs == { "()Lcom/kheiron/ktbind/Sample;",
                        "(Ljava/lang/String;)Lcom/kheiron/ktbind/Sample;" }
          IN  /\ { bs[i].signature : i \in creates } = sigs
              /\ \A i \in creates : /\ ~bs[i].is_member
                                    /\ bs[i].function_entry_point = "CreateObjectAdapter"
              /\ loaded.loads = 1 => Cardinality(creates) = 2
              /\ LoadSucceeded =>
                    \A sg \in sigs :
                        [cls |-> SampleClass, name |-> "create", signature |-> sg,
                         entry |-> "CreateObjectAdapter"] \in installed

\* a first load has succeeded and the host holds both overloads of create
C19_Witness ==
    /\ LoadSucceeded
    /\ loaded.loads = 1
    /\ Cardinality({ e \in installed : e.cls = SampleClass /\ e.name = "create" }) = 2


\* C21: a member of a data class that no field call registered is neither
\* read nor written by a conversion.  After a conversion that returned, in
\* either direction and whatever the values of the source object: each
\* unregistered member of the target has the value the target was created
\* with (the native default constructor's inbound, AllocObject's outbound),
\* and each registered member has the value of the source.
C21_UnregisteredFieldKeepsDefault ==
    (LoadSucceeded /\ conv.end = "returned") =>
        LET registered == { initializer.script[i].name :
                              i \in { k \in DOMAIN initializer.script :
                                        /\ initializer.script[k].op = "field"
                                        /\ initializer.script[k].cls = conv.cls } }
        IN  \A m \in MembersOf(conv.cls) :
                /\ m \notin registered =>
                      conv.target[m] = IF conv.dir = "native_value" THEN NativeDefault
                                       ELSE JavaDefault
                /\ m \in registered => conv.target[m] = conv.source[m]

\* an object of Data was converted outbound with b registered and str not
C21_Witness ==
    /\ LoadSucceeded
    /\ conv.dir = "java_value" /\ conv.end = "returned" /\ conv.cls = DataClass
    /\ \E i \in DOMAIN conv.applied : conv.applied[i].name = "b"
    /\ \A i \in DOMAIN conv.applied : conv.applied[i].name # "str"
    /\ conv.source["str"] = "y"
    /\ conv.target["str"] = JavaDefault
    /\ conv.target["b"] = conv.source["b"]


\* C22: for every native string x, the empty string included, converting x
\* outbound to a runtime string and the result back inbound gives a string
\* equal to x in length and in content.
C22_StringRoundTrip ==
    (conv.dir = "native_value" /\ conv.kind = "string") =>
        /\ Len(conv.back) = Len(conv.source)
        /\ conv.back = conv.source


\* C23: for sequences, sets and mappings, empty and nested ones included,
\* converting outbound and then back inbound gives an equal collection: the
\* same elements or key/value pairs, and for sequences the same order.
C23_CollectionRoundTrip ==
    (conv.dir = "native_value" /\ conv.kind \in {"list", "set", "map"}) =>
        conv.back = conv.source


\* C24: a free function, an instance method and a const instance method
\* with the same parameter and result types get the same wire signature:
\* "(" followed by the signatures of the parameter types in declaration
\* order, ")" and the signature of the result type.  The receiver type is
\* not in it, and a parameter taken by value and one taken by const
\* reference give the same signature.  The binding registered for the
\* function, and the entry point the host holds after load, carry it.
C24_SignatureIgnoresFormAndQualifiers ==
    LoadSucceeded =>
        LET f == initializer.script[2].func
            sigOf == [t \in ResultTypes |->
                        CASE t = "bool" -> "Z"
                          [] t = "long" -> "J"
                          [] t = "std::string" -> "Ljava/lang/String;"
                          [] t = "void" -> "V"]
            expected == "(" \o join_v([i \in 1..Len(f.params) |-> sigOf[f.params[i].type]])
                            \o ")" \o sigOf[f.result]
            b == FunctionBindings[SampleClass][2]
        IN  /\ b.name = "f"
            /\ b.signature = expected
            /\ b.is_member = (f.form # "R(*)(Args...)")
            /\ \E e \in installed :
                  e.cls = SampleClass /\ e.name = "f" /\ e.signature = expected

\* a const instance method taking a string by const reference and a bool by
\* value, returning a string, was bound and installed
C24_Witness ==
    /\ LoadSucceeded
    /\ initializer.script[2].func.form = "R(T::*)(Args...) const"
    /\ Len(initializer.script[2].func.params) = 2
    /\ initializer.script[2].func.params[1] = [type |-> "std::string", qualifier |-> "const&"]
    /\ initializer.script[2].func.params[2] = [type |-> "bool", qualifier |-> ""]
    /\ initializer.script[2].func.result = "std::string"
    /\ FunctionBindings[SampleClass][2].signature = "(Ljava/lang/String;Z)Ljava/lang/String;"


\* C25: when a load fails because a registered class, method or field is
\* missing on the host, exactly one runtime exception is pending when the
\* load returns, and its message names the offending class, method or field.
C25_FailureNamesOffender ==
    (/\ LoadFailed
     /\ host.versionOk
     /\ initializer.throws = "none"
     /\ ~initializer.prints)
    => LET classes == (DOMAIN FunctionBindings \cup DOMAIN FieldBindings) \ host.classes
           methods == NativesOf(FunctionBindings) \ host.natives
           fields == FieldsOf(FieldBindings) \ host.fields
       IN  /\ classes # {} \/ methods # {} \/ fields # {}
           /\ loaded.pending # NoThrowable
           /\ \/ \E c \in classes :
                    loaded.pending.msg \in
                        { "Cannot find class '" \o c \o "' registered as a native class in C++ code",
                          "Cannot find class '" \o c \o "' registered as a data class in C++ code" }
              \/ \E m \in methods :
                    loaded.pending.msg = "Method '" \o m[1] \o "." \o m[2] \o m[3]
                                            \o "' name or signature does not match"
              \/ \E f \in fields :
                    loaded.pending.msg = "Cannot find field '" \o f[2] \o "' with type signature '"
                                            \o f[3] \o "' in registered class '" \o f[1] \o "'"


\* C26: the steps of a load, in the order they were taken: GetEnv first;
\* then Environment::load and setEnv (the host handle is recorded); then the
\* registration function; then, class by class, FindClass followed by
\* RegisterNatives; then the check for a pending exception; then the field
\* bindings, FindClass followed by GetFieldID.  No class is resolved and
\* nothing is installed (by a first load) before the registration function
\* has returned, no
\* function binding is installed after the field checks began, and when
\* GetEnv fails the registration function is not run: both tables are empty,
\* no host handle is recorded and nothing is installed.
C26_LoadStepsInOrder ==
    loaded.state \in {"returned", "escaped", "aborted"} =>
        LET t == loaded.trace
            finds == { "FindClass " \o c : c \in AllClasses }
            installs == { "RegisterNatives " \o c : c \in AllClasses }
            checks == { "GetFieldID " \o c : c \in AllClasses }
        IN  /\ Len(t) >= 1 /\ t[1] = "GetEnv"
            /\ Len(t) >= 2 => t[2] = "Environment::load"
            /\ Len(t) >= 3 => (Len(t) >= 4 /\ t[3] = "setEnv" /\ t[4] = "initializer")
            /\ \A i \in DOMAIN t :
                  /\ i > 4 => t[i] \in finds \cup installs \cup checks \cup {"ExceptionCheck"}
                  /\ t[i] \in installs =>
                        /\ i > 5
                        /\ t[i - 1] \in finds
                        /\ \A j \in 1..i : t[j] # "ExceptionCheck" /\ t[j] \notin checks
                  /\ t[i] \in checks =>
                        /\ t[i - 1] \in finds
                        /\ \E j \in 1..i : t[j] = "ExceptionCheck"
            /\ Cardinality({ i \in DOMAIN t : t[i] = "ExceptionCheck" }) <= 1
            /\ (loaded.loads = 1 /\ installed # {}) =>
                  \E i \in DOMAIN t : t[i] \in installs
            /\ ~host.versionOk =>
                  /\ t = <<"GetEnv">>
                  /\ FunctionBindings = <<>> /\ FieldBindings = <<>>
                  /\ installed = {} /\ vm = "nullptr"

\* a load of the whole test registration has succeeded: two classes were
\* installed and the fields of one data class verified
C26_Witness ==
    /\ LoadSucceeded
    /\ loaded.loads = 1
    /\ Len(loaded.trace) = 11
    /\ loaded.trace[9] = "ExceptionCheck"
    /\ loaded.trace[11] = "GetFieldID " \o TypeSig(DataClass)


\* C27: in an invocation of a callback closure that called the runtime
\* callable, the call comes before the one check for a pending exception and
\* every unboxing and conversion of the result after it; when the callable
\* raised, a JavaException is thrown to the native caller and the result is
\* neither unboxed nor converted; when the callable returns void, nothing is
\* unboxed.
C27_CheckBetweenCallAndUnbox ==
    callback.called =>
        LET s == callback.steps
            calls == { i \in DOMAIN s : s[i] \in {"CallObjectMethod", "CallVoidMethod"} }
            checks == { i \in DOMAIN s : s[i] = "ExceptionCheck" }
            unboxes == { i \in DOMAIN s : s[i] \in {"java_unbox", "native_value"} }
        IN  /\ Cardinality(calls) = 1 /\ Cardinality(checks) = 1
            /\ \A i \in calls, j \in checks : i < j
            /\ \A j \in checks, k \in unboxes : j < k
            /\ callback.raised =>
                  /\ callback.thrown = "JavaException"
                  /\ callback.end = "threw"
                  /\ unboxes = {}
            /\ (~callback.raised /\ callback.R # "void") =>
                  \E k \in unboxes : s[k] = "java_unbox"
            /\ callback.R = "void" => unboxes = {}


\* C28 (as stated): whatever the interleaving of the steps of close() calls
\* that threads run on one holder, no native instance is deleted more than
\* once.
C28_ConcurrentCloseDestroysOnce ==
    \A p \in DOMAIN deleted : deleted[p] <= 1

\* C28 (amended): a native instance is deleted a second time only by a
\* close() that overlapped another close() of the same holder, that is, that
\* read the handle before the other wrote null; close() calls on a holder
\* that do not overlap delete its instance at most once.
C28_SecondDeleteOnlyWhenOverlapped ==
    [][\A t \in DOMAIN closing :
          (closing[t].phase = "read" /\ closing'[t].phase = "deleted"
           /\ closing[t].ptr # 0 /\ deleted[closing[t].ptr] >= 1)
          => closing[t].overlapped]_vars

\* a holder was closed twice by different calls that did not overlap (the
\* second has read a null handle and no close() is marked overlapped), and
\* its instance was deleted once
C28_Witness ==
    \E t \in DOMAIN closing :
        /\ closing[t].phase = "deleted"
        /\ closing[t].ptr = 0
        /\ ~closing[t].overlapped
        /\ holders[closing[t].this].closes = 1
        /\ deleted[holders[closing[t].this].instance] = 1


\* C29: when an adapter has returned, every native instance the layer
\* allocated and has not deleted is referenced by exactly one holder; in
\* particular an instance allocated by a constructor adapter or a by-value
\* return that then failed (no holder allocated, no handle field) has been
\* deleted.
C29_AllocatedInstanceOwnedOrDestroyed ==
    \A p \in DOMAIN deleted :
        deleted[p] = 0 =>
            Cardinality({ h \in DOMAIN nativePointer : nativePointer[h] = p }) = 1


====
